---- MODULE Spec2Model ----
(***************************************************************************)
(* Verification model of wiki_disambig.py (textgrounder): the regional     *)
(* grid of statistical regions, the per-word region distribution cache,    *)
(* the article table with its loaders, and the gazetteer matcher.          *)
(*                                                                         *)
(* Coordinates are integers in micro-degrees, so that the source's limits  *)
(* (89.999999, 179.999999) keep their values.  Python objects are records  *)
(* with an id field that stands for object identity.                       *)
(***************************************************************************)
EXTENDS Integers, Sequences, FiniteSets, TLC

\* ------------------------------------------------------------------------
\* Bounds of the model
\* ------------------------------------------------------------------------
MaxArts == 2
MaxWidth == 2
MaxRecords == 3
MaxLines == 4
MaxElapsed == 1

\* Probabilities are fixed-point numbers, in units of 1/Scale.
Scale == 1000

\* Python's None where an object is expected.
None == [none |-> TRUE]

\* Python's None in an index field (latind, longind): outside every range.
NoneInd == -1000

\* Python's None as an incoming-link count (the count is unknown).
NoLinks == -1

\* ------------------------------------------------------------------------
\* Generic helpers
\* ------------------------------------------------------------------------
Range(s) == {s[k] : k \in 1..Len(s)}

SeqsUpTo(S, n) == UNION {[1..k -> S] : k \in 0..n}

RECURSIVE SumSeq(_)
SumSeq(s) == IF s = <<>> THEN 0 ELSE Head(s) + SumSeq(Tail(s))

\* ------------------------------------------------------------------------
\* Coordinates and regions
\* ------------------------------------------------------------------------
minimum_latitude == -90000000
maximum_latitude == 89999999
minimum_longitude == -180000000
maximum_longitude == 179999999

\* Size of a tiling region, set by --degrees-per-region (here 90 degrees).
degrees_per_region == 90000000

Coord(lat, long) == [lat |-> lat, long |-> long]

coord_to_tiling_region_indices(coord) ==
  << coord.lat \div degrees_per_region, coord.long \div degrees_per_region >>

minimum_latind ==
  coord_to_tiling_region_indices(Coord(minimum_latitude, minimum_longitude))[1]
minimum_longind ==
  coord_to_tiling_region_indices(Coord(minimum_latitude, minimum_longitude))[2]
maximum_latind ==
  coord_to_tiling_region_indices(Coord(maximum_latitude, maximum_longitude))[1]
maximum_longind ==
  coord_to_tiling_region_indices(Coord(maximum_latitude, maximum_longitude))[2]

coord_to_stat_region_indices(coord, width) ==
  LET subval == ((width - 1) * degrees_per_region) \div 2
      lat0   == coord.lat - subval
      long0  == coord.long - subval
      lat    == IF lat0 < minimum_latitude THEN minimum_latitude ELSE lat0
      long   == IF long0 < minimum_longitude THEN long0 + 360000000 ELSE long0
  IN  coord_to_tiling_region_indices(Coord(lat, long))


\* ------------------------------------------------------------------------
\* State
\* ------------------------------------------------------------------------
VARIABLES
  Opts,                       \* the options in force (width_of_stat_region, ...)
  arts,                       \* the StatArticle objects, by object id
  tiling_region_to_articles,  \* StatRegion.tiling_region_to_articles
  corner_to_stat_region,      \* StatRegion.corner_to_stat_region, in dict order
  empty_stat_region,          \* StatRegion.empty_stat_region
  all_regions_computed,       \* StatRegion.all_regions_computed
  num_empty_regions,          \* StatRegion.num_empty_regions
  num_non_empty_regions,      \* StatRegion.num_non_empty_regions
  num_created,                \* number of StatRegion objects constructed so far
  cached_dists,               \* RegionDist.cached_dists, least recently used first
  name_to_article,            \* ArticleTable.name_to_article
  lower_name_to_articles,     \* ArticleTable.lower_name_to_articles
  lower_name_div_to_articles, \* ArticleTable.lower_name_div_to_articles
  short_lower_name_to_articles, \* ArticleTable.short_lower_name_to_articles
  lower_toponym_to_article,   \* ArticleTable.lower_toponym_to_article
  articles_by_split,          \* ArticleTable.articles_by_split
  redirects,                  \* read_article_data: the redirect records seen
  pc,                         \* where implement_main is
  nread,                      \* number of records or lines read by the loader
  title,                      \* read_word_counts: title of the current block
  total_tokens,               \* read_word_counts: tokens of the current block
  wordhash,                   \* read_word_counts: counts of the current block
  localities,                 \* the Locality objects, by object id
  path_to_division,           \* Division.path_to_division: the Division objects
  lower_toponym_to_location,  \* Gazetteer.lower_toponym_to_location
  lower_toponym_to_division,  \* Gazetteer.lower_toponym_to_division
  stopwords,                  \* the global set of stopwords
  strategy,                   \* the strategy object of the evaluator
  doc,                        \* the toponyms of the document being evaluated
  all_toponym,                \* Results.all_toponym
  diff_surface,               \* Results.diff_surface
  diff_short,                 \* Results.diff_short
  all_document,               \* Results.all_document
  docs_by_naitr,              \* Results.docs_by_naitr
  docs_by_degree_dist_to_true_center, \* Results, keyed by distance
  docs_by_true_dist_to_true_center,   \* Results, keyed by distance
  docs_by_degree_dist_to_pred_center, \* Results, a table by range
  docs_by_true_dist_to_pred_center,   \* Results, a table by range
  yielded_regions,            \* what yield_all_nonempty_regions returned last
  geogwords_frame,            \* the generator yield_geogwords: locals, lines, words
  warnings,                   \* titles of the warnings `Skipping article'
  ret                         \* the last call made and what it returned

gridVars == << tiling_region_to_articles, corner_to_stat_region,
               empty_stat_region, all_regions_computed, num_empty_regions,
               num_non_empty_regions, num_created >>

cacheVars == << cached_dists >>

tableVars == << name_to_article, lower_name_to_articles,
                lower_name_div_to_articles, short_lower_name_to_articles,
                lower_toponym_to_article, articles_by_split >>

loadVars == << redirects, nread, title, total_tokens, wordhash >>

gazVars == << localities, path_to_division, lower_toponym_to_location,
              lower_toponym_to_division >>

\* No gazetteer entry was read.
InitGazVars ==
  /\ localities = <<>>
  /\ path_to_division = <<>>
  /\ lower_toponym_to_location = <<>>
  /\ lower_toponym_to_division = <<>>

toponymVars == << all_toponym, diff_surface, diff_short, geogwords_frame >>

documentVars == << all_document, docs_by_naitr,
                   docs_by_degree_dist_to_true_center,
                   docs_by_true_dist_to_true_center,
                   docs_by_degree_dist_to_pred_center,
                   docs_by_true_dist_to_pred_center >>

evalVars == << stopwords, strategy, doc, toponymVars, documentVars,
              yielded_regions, warnings >>

vars == << Opts, arts, gridVars, cacheVars, tableVars, loadVars, gazVars,
           evalVars, pc, ret >>

\* ------------------------------------------------------------------------
\* Word distributions (word_distribution.WordDist and RegionWordDist)
\* ------------------------------------------------------------------------
Words == {"paris", "tokyo", "wine"}

NoCounts == [w \in Words |-> 0]

\* WordDist(): a fresh, unfinished distribution.
NewWordDist ==
  [counts |-> NoCounts, total_tokens |-> 0, finished |-> FALSE]

\* WordDist.set_word_distribution(total_tokens, wordhash)
set_word_distribution(dist, tokens, hash) ==
  [dist EXCEPT !.counts = hash, !.total_tokens = tokens]

\* WordDist.add_word_distribution(other): sums the counts.
add_word_distribution(dist, other) ==
  [dist EXCEPT !.counts = [w \in Words |-> dist.counts[w] + other.counts[w]],
               !.total_tokens = dist.total_tokens + other.total_tokens]

\* WordDist.finish_word_distribution(): freezes the distribution.
finish_word_distribution(dist) == [dist EXCEPT !.finished = TRUE]

\* RegionWordDist.__init__
NewRegionWordDist ==
  [counts |-> NoCounts, total_tokens |-> 0, finished |-> FALSE,
   articles |-> <<>>, num_arts |-> 0, incoming_links |-> 0,
   assert_failed |-> FALSE]

is_empty(worddist) == worddist.num_arts = 0

\* RegionWordDist.add_articles: artids is a list of article ids, heap the
\* article objects.  assert_failed records that `assert art.dist.finished'
\* raised (the loop stops there).
RECURSIVE add_articles(_, _, _)
add_articles(worddist, artids, heap) ==
  IF artids = <<>> \/ worddist.assert_failed THEN worddist
  ELSE LET art == heap[Head(artids)]
           rest == Tail(artids)
       IN  IF art.dist = None THEN add_articles(worddist, rest, heap)
           ELSE IF ~art.dist.finished
             THEN [worddist EXCEPT !.assert_failed = TRUE]
           ELSE IF art.split # "training"
             THEN add_articles(worddist, rest, heap)
           ELSE add_articles(
                  [add_word_distribution(worddist, art.dist) EXCEPT
                     !.articles = Append(worddist.articles, art.id),
                     !.num_arts = worddist.num_arts + 1,
                     !.incoming_links =
                        IF art.incoming_links = NoLinks THEN @
                        ELSE @ + art.incoming_links],
                  rest, heap)

\* RegionWordDist.finish_distribution
finish_distribution(worddist) == finish_word_distribution(worddist)

\* ------------------------------------------------------------------------
\* Statistical regions
\* ------------------------------------------------------------------------
\* StatRegion.__init__: id stands for the identity of the new object.
NewStatRegion(id, latind, longind) ==
  [id |-> id, latind |-> latind, longind |-> longind,
   worddist |-> NewRegionWordDist]

\* The tiling regions visited by the two loops of generate_dist, in order.
TilesOfRegion(reglat, reglong, width) ==
  [k \in 1..(width * width) |->
     LET i  == reglat + ((k - 1) \div width)
         j  == reglong + ((k - 1) % width)
         jj == IF j > maximum_longind THEN minimum_longind ELSE j
     IN  << i, jj >>]

\* process_one_region, inside generate_dist
process_one_region(worddist, tile, tiling, heap) ==
  LET tilearts == IF tile \in DOMAIN tiling THEN tiling[tile] ELSE <<>>
  IN  IF tilearts = <<>> THEN worddist
      ELSE add_articles(worddist, tilearts, heap)

RECURSIVE process_regions(_, _, _, _)
process_regions(worddist, tiles, tiling, heap) ==
  IF tiles = <<>> THEN worddist
  ELSE process_regions(process_one_region(worddist, Head(tiles), tiling, heap),
                       Tail(tiles), tiling, heap)

\* StatRegion.generate_dist
generate_dist(statreg, width, tiling, heap) ==
  LET wd == process_regions(statreg.worddist,
              TilesOfRegion(statreg.latind, statreg.longind, width),
              tiling, heap)
  IN  [statreg EXCEPT !.worddist =
         IF wd.assert_failed THEN wd ELSE finish_distribution(wd)]

\* dict.get((latind, longind), None) on corner_to_stat_region
LookupRegion(map, latind, longind) ==
  IF \E k \in 1..Len(map) : map[k].latind = latind /\ map[k].longind = longind
  THEN map[CHOOSE k \in 1..Len(map) :
              map[k].latind = latind /\ map[k].longind = longind]
  ELSE None

\* The class state of StatRegion that find_region_for_region_indices reads
\* and writes, as one record.
GridState ==
  [map |-> corner_to_stat_region, empty |-> empty_stat_region,
   computed |-> all_regions_computed, nempty |-> num_empty_regions,
   nnonempty |-> num_non_empty_regions, created |-> num_created,
   result |-> None, raised |-> FALSE]

\* Mutant: the shared empty region is also stored in the map.
return_empty_stat_region_in_map(g) ==
  [g EXCEPT !.empty = NewStatRegion(g.created + 1, NoneInd, NoneInd),
            !.created = @ + 1,
            !.map = Append(@, NewStatRegion(g.created + 1, NoneInd, NoneInd)),
            !.result = NewStatRegion(g.created + 1, NoneInd, NoneInd)]

\* find_region_for_region_indices, the branch taken once all regions are
\* computed: the shared empty region, constructed on first use.
return_empty_stat_region(g) ==
  IF g.empty = None
  THEN LET e0 == NewStatRegion(g.created + 1, NoneInd, NoneInd)
           e  == [e0 EXCEPT !.worddist = finish_distribution(@)]
       IN  [g EXCEPT !.empty = e, !.created = @ + 1, !.result = e]
  ELSE [g EXCEPT !.result = g.empty]

\* find_region_for_region_indices, the branch that constructs the region.
create_stat_region(g, latind, longind, no_create_empty, width, tiling, heap) ==
  LET new   == generate_dist(NewStatRegion(g.created + 1, latind, longind),
                             width, tiling, heap)
      empty == is_empty(new.worddist)
  IN  IF new.worddist.assert_failed
      THEN [g EXCEPT !.created = @ + 1, !.raised = TRUE]
      ELSE [g EXCEPT
             !.created = @ + 1,
             !.nempty = IF empty THEN @ + 1 ELSE @,
             !.nnonempty = IF empty THEN @ ELSE @ + 1,
             !.map = IF ~empty \/ ~no_create_empty THEN Append(@, new) ELSE @,
             !.result = new]

\* Mutant: the region is constructed also after all regions were computed.
find_region_ignoring_all_computed(g, latind, longind, no_create_empty, width, tiling, heap) ==
  LET statreg == LookupRegion(g.map, latind, longind)
  IN  IF statreg # None THEN [g EXCEPT !.result = statreg]
      ELSE create_stat_region(g, latind, longind, no_create_empty,
                              width, tiling, heap)

\* StatRegion.find_region_for_region_indices, on a grid state g; the region
\* returned is in .result, and .raised tells that add_articles' assertion failed.
find_region_for_region_indices(g, latind, longind, no_create_empty, width, tiling, heap) ==
  LET statreg == LookupRegion(g.map, latind, longind)
  IN  IF statreg # None THEN [g EXCEPT !.result = statreg]
      ELSE IF g.computed THEN return_empty_stat_region(g)
      ELSE create_stat_region(g, latind, longind, no_create_empty,
                              width, tiling, heap)

\* Mutant: the two indices are passed in the wrong order.
find_region_for_coord_swapped(g, coord, width, tiling, heap) ==
  LET inds == coord_to_stat_region_indices(coord, width)
  IN  find_region_for_region_indices(g, inds[2], inds[1], FALSE,
                                     width, tiling, heap)

\* StatRegion.find_region_for_coord
find_region_for_coord(g, coord, width, tiling, heap) ==
  LET inds == coord_to_stat_region_indices(coord, width)
  IN  find_region_for_region_indices(g, inds[1], inds[2], FALSE,
                                     width, tiling, heap)

\* The (i, j) pairs of the two loops of generate_all_nonempty_regions, in order.
AllIndices ==
  LET nlong == maximum_longind - minimum_longind + 1
      nlat  == maximum_latind - minimum_latind + 1
  IN  [k \in 1..(nlat * nlong) |->
         << minimum_latind + ((k - 1) \div nlong),
            minimum_longind + ((k - 1) % nlong) >>]

RECURSIVE generate_regions(_, _, _, _, _)
generate_regions(g, inds, width, tiling, heap) ==
  IF inds = <<>> \/ g.raised THEN g
  ELSE generate_regions(
         find_region_for_region_indices(g, Head(inds)[1], Head(inds)[2], TRUE,
                                        width, tiling, heap),
         Tail(inds), width, tiling, heap)

\* StatRegion.generate_all_nonempty_regions
generate_all_nonempty_regions(g, width, tiling, heap) ==
  LET g2 == generate_regions(g, AllIndices, width, tiling, heap)
  IN  IF g2.raised THEN g2 ELSE [g2 EXCEPT !.computed = TRUE, !.result = None]

\* StatRegion.add_article_to_region
add_article_to_region(tiling, article) ==
  LET tile == coord_to_tiling_region_indices(article.coord)
  IN  [tiling EXCEPT ![tile] = Append(@, article.id)]


\* ------------------------------------------------------------------------
\* Article names
\* ------------------------------------------------------------------------
\* A name is its letters in lower case (base), how they are cased ("lower":
\* paris, "cap": Paris, "upper": PARIS), and what follows them: a division
\* after a comma (", texas") or a qualifier in parentheses (" (city)").
Name(case, base, div, paren) ==
  [case |-> case, base |-> base, div |-> div, paren |-> paren]

\* No name: the empty string, or None.
NoName == [none |-> TRUE]

\* textutil.capfirst: the first letter in upper case.
capfirst(name) == [name EXCEPT !.case = IF @ = "lower" THEN "cap" ELSE @]

\* str.lower
lower(name) == [name EXCEPT !.case = "lower"]

\* compute_short_form, of a name in lower case: << short form, division >>.
compute_short_form(name) ==
  IF name.div # "" THEN << [name EXCEPT !.div = "", !.paren = ""], name.div >>
  ELSE IF name.paren # "" THEN << [name EXCEPT !.paren = ""], "" >>
  ELSE << name, "" >>

\* ------------------------------------------------------------------------
\* Article table
\* ------------------------------------------------------------------------
\* d[key] of a listdict: the list, empty for a key never set.
ListOf(d, key) == IF key \in DOMAIN d THEN d[key] ELSE <<>>

\* d[key] += [x]
AddToList(d, key, x) ==
  [k \in DOMAIN d \cup {key} |->
     IF k = key THEN Append(ListOf(d, key), x) ELSE d[k]]

\* d[key] = x
SetKey(d, key, x) == [k \in DOMAIN d \cup {key} |-> IF k = key THEN x ELSE d[k]]

\* The class attributes of ArticleTable as one record.
EmptyTable ==
  [name_to_article |-> << >>, lower_name_to_articles |-> << >>,
   lower_name_div_to_articles |-> << >>,
   short_lower_name_to_articles |-> << >>,
   lower_toponym_to_article |-> << >>, articles_by_split |-> << >>]

Table ==
  [name_to_article |-> name_to_article,
   lower_name_to_articles |-> lower_name_to_articles,
   lower_name_div_to_articles |-> lower_name_div_to_articles,
   short_lower_name_to_articles |-> short_lower_name_to_articles,
   lower_toponym_to_article |-> lower_toponym_to_article,
   articles_by_split |-> articles_by_split]

InitTableVars(t) ==
  /\ name_to_article = t.name_to_article
  /\ lower_name_to_articles = t.lower_name_to_articles
  /\ lower_name_div_to_articles = t.lower_name_div_to_articles
  /\ short_lower_name_to_articles = t.short_lower_name_to_articles
  /\ lower_toponym_to_article = t.lower_toponym_to_article
  /\ articles_by_split = t.articles_by_split

SetTable(t) ==
  /\ name_to_article' = t.name_to_article
  /\ lower_name_to_articles' = t.lower_name_to_articles
  /\ lower_name_div_to_articles' = t.lower_name_div_to_articles
  /\ short_lower_name_to_articles' = t.short_lower_name_to_articles
  /\ lower_toponym_to_article' = t.lower_toponym_to_article
  /\ articles_by_split' = t.articles_by_split

\* ArticleTable.lookup_article: the id of the article, or 0 for None.
lookup_article(t, name) ==
  IF capfirst(name) \in DOMAIN t.name_to_article
  THEN t.name_to_article[capfirst(name)] ELSE 0

\* The part of record_article that fills the name indexes.
record_names(t, name, art) ==
  LET loname == lower(name)
      sf     == compute_short_form(loname)
      short  == sf[1]
      div    == sf[2]
      top1   == IF art \in Range(ListOf(t.lower_toponym_to_article, loname))
                THEN t.lower_toponym_to_article
                ELSE AddToList(t.lower_toponym_to_article, loname, art)
      top2   == IF short # loname /\ art \notin Range(ListOf(top1, short))
                THEN AddToList(top1, short, art) ELSE top1
  IN  [t EXCEPT
        !.name_to_article = SetKey(@, name, art),
        !.lower_name_to_articles = AddToList(@, loname, art),
        !.lower_name_div_to_articles =
           IF div # "" THEN AddToList(@, << short, div >>, art) ELSE @,
        !.short_lower_name_to_articles = AddToList(@, short, art),
        !.lower_toponym_to_article = top2]

\* Mutant: the article is added to its split also for a redirect name.
record_article_redirect_in_split(t, name, art, is_redirect, heap) ==
  [record_names(t, name, art) EXCEPT
     !.articles_by_split = AddToList(@, heap[art].split, art)]

\* ArticleTable.record_article; art is the id of the article.
record_article(t, name, art, is_redirect, heap) ==
  LET t2 == record_names(t, name, art)
  IN  IF is_redirect THEN t2
      ELSE [t2 EXCEPT !.articles_by_split = AddToList(@, heap[art].split, art)]

\* The state that read_article_data works on.
LoadState ==
  [table |-> Table, tiling |-> tiling_region_to_articles, heap |-> arts,
   redirects |-> redirects]

\* read_article_data.process: rec is the article read from the file; it
\* becomes an object only if it is kept.
process(st, rec) ==
  LET id  == Len(st.heap) + 1
      art == [id |-> id, dist |-> None, location |-> None] @@ rec
      heap == Append(st.heap, art)
  IN  IF rec.namespace # "Main" THEN st
      ELSE IF rec.redir # NoName
        THEN [st EXCEPT !.heap = heap, !.redirects = Append(@, id)]
      ELSE IF rec.coord # None
        THEN [st EXCEPT
               !.heap = heap,
               !.table = record_article(@, rec.title, id, FALSE, heap),
               !.tiling = IF rec.split = "training"
                          THEN add_article_to_region(@, art) ELSE @]
      ELSE st

\* The loop over the redirects that ends read_article_data.
RECURSIVE record_redirects(_, _, _)
record_redirects(t, reds, heap) ==
  IF reds = <<>> THEN t
  ELSE LET x == heap[Head(reds)]
           redart == lookup_article(t, x.redir)
       IN  record_redirects(
             IF redart # 0 THEN record_article(t, x.title, redart, TRUE, heap)
             ELSE t,
             Tail(reds), heap)

AllTiles ==
  (minimum_latind..maximum_latind) \X (minimum_longind..maximum_longind)

\* read_article_data on a whole file, given as the list of its records.
RECURSIVE process_records(_, _)
process_records(st, recs) ==
  IF recs = <<>> THEN st
  ELSE process_records(process(st, Head(recs)), Tail(recs))

read_article_data(recs) ==
  LET st == process_records([table |-> EmptyTable,
                             tiling |-> [t \in AllTiles |-> <<>>],
                             heap |-> <<>>, redirects |-> <<>>], recs)
  IN  [st EXCEPT !.table = record_redirects(@, st.redirects, st.heap)]

\* ------------------------------------------------------------------------
\* Word counts
\* ------------------------------------------------------------------------
\* The locals of read_word_counts before the first line.
InitCountsVars ==
  /\ title = NoName
  /\ total_tokens = 0
  /\ wordhash = NoCounts

\* Mutant: the counts of a title that is not in the table go to the first
\* article.
one_article_probs_of_unknown_title_kept(t, heap, ttl, tokens, hash) ==
  IF tokens = 0 \/ heap = <<>> THEN heap
  ELSE [heap EXCEPT ![IF lookup_article(t, ttl) = 0 THEN 1
                      ELSE lookup_article(t, ttl)].dist =
          set_word_distribution(NewWordDist, tokens, hash)]

\* read_word_counts.one_article_probs: the warnings written afterwards.
one_article_warning(t, written, ttl, tokens) ==
  IF tokens # 0 /\ lookup_article(t, ttl) = 0 THEN Append(written, ttl)
  ELSE written

\* read_word_counts.one_article_probs: the article objects afterwards.
one_article_probs(t, heap, ttl, tokens, hash) ==
  IF tokens = 0 THEN heap
  ELSE LET art == lookup_article(t, ttl)
       IN  IF art = 0 THEN heap
           ELSE [heap EXCEPT ![art].dist =
                   set_word_distribution(NewWordDist, tokens, hash)]

RECURSIVE finish_articles(_, _)
finish_articles(heap, ids) ==
  IF ids = <<>> THEN heap
  ELSE LET a == Head(ids)
       IN  finish_articles(
             IF heap[a].dist # None
             THEN [heap EXCEPT ![a].dist = finish_word_distribution(@)]
             ELSE heap,
             Tail(ids))

\* The splits of articles_by_split, in the order of iteration.
SplitOrder == << "training", "dev", "test" >>

RECURSIVE finish_tables(_, _, _)
finish_tables(t, heap, k) ==
  IF k > Len(SplitOrder) THEN heap
  ELSE finish_tables(t,
         finish_articles(heap, ListOf(t.articles_by_split, SplitOrder[k])),
         k + 1)

\* Mutant: only the training articles are finished.
finish_only_training_articles(t, heap) ==
  finish_articles(heap, ListOf(t.articles_by_split, "training"))

\* ArticleTable.finish_article_distributions
finish_article_distributions(t, heap) == finish_tables(t, heap, 1)

\* ------------------------------------------------------------------------
\* Result accumulators (Eval and its subclasses, Results)
\* ------------------------------------------------------------------------
\* d[key] += 1 on an intdict.
Incr(d, key) ==
  [k \in DOMAIN d \cup {key} |->
     IF k = key THEN (IF key \in DOMAIN d THEN d[key] ELSE 0) + 1 ELSE d[k]]

\* reason=None
NoReason == "None"

\* Results.incorrect_geotag_toponym_reasons: the attribute names.
incorrect_geotag_toponym_reasons ==
  << "incorrect_with_no_candidates",
     "incorrect_with_no_correct_candidates",
     "incorrect_with_multiple_correct_candidates",
     "incorrect_one_correct_candidate_missing_link_info",
     "incorrect_one_correct_candidate" >>

\* Eval.__init__ and EvalWithCandidateList.__init__, with the five reasons of
\* Results.incorrect_geotag_toponym_reasons as attributes.
NewEvalWithCandidateList ==
  [total_instances |-> 0, correct_instances |-> 0, incorrect_instances |-> 0,
   incorrect_with_no_candidates |-> 0,
   incorrect_with_no_correct_candidates |-> 0,
   incorrect_with_multiple_correct_candidates |-> 0,
   incorrect_one_correct_candidate_missing_link_info |-> 0,
   incorrect_one_correct_candidate |-> 0,
   other_stats |-> <<>>,
   total_instances_by_num_candidates |-> <<>>,
   correct_instances_by_num_candidates |-> <<>>,
   incorrect_instances_by_num_candidates |-> <<>>]

\* The counters of Eval.record_result.
count_instance(e, correct) ==
  [e EXCEPT !.total_instances = @ + 1,
            !.correct_instances = IF correct THEN @ + 1 ELSE @,
            !.incorrect_instances = IF correct THEN @ ELSE @ + 1]

\* Eval.record_result
Eval_record_result(e, correct, reason) ==
  IF ~correct /\ reason # NoReason
  THEN [count_instance(e, correct) EXCEPT ![reason] = @ + 1]
  ELSE count_instance(e, correct)

\* EvalWithCandidateList.record_result
EvalWithCandidateList_record_result(e, correct, reason, num_arts) ==
  [Eval_record_result(e, correct, reason) EXCEPT
     !.total_instances_by_num_candidates = Incr(@, num_arts),
     !.correct_instances_by_num_candidates =
        IF correct THEN Incr(@, num_arts) ELSE @,
     !.incorrect_instances_by_num_candidates =
        IF correct THEN @ ELSE Incr(@, num_arts)]

\* EvalWithRank.__init__(max_rank_for_credit=10)
max_rank_for_credit == 10

\* GeotagDocumentEval.__init__, on top of EvalWithRank and Eval (no reasons).
NewGeotagDocumentEval ==
  [total_instances |-> 0, correct_instances |-> 0, incorrect_instances |-> 0,
   other_stats |-> <<>>,
   incorrect_by_exact_rank |-> <<>>, correct_by_up_to_rank |-> <<>>,
   incorrect_past_max_rank |-> 0, total_credit |-> 0,
   true_dists |-> <<>>, degree_dists |-> <<>>]

\* for i in xrange(rank, max_rank_for_credit + 1): correct_by_up_to_rank[i] += 1
RECURSIVE incr_up_to_rank(_, _)
incr_up_to_rank(d, i) ==
  IF i > max_rank_for_credit THEN d ELSE incr_up_to_rank(Incr(d, i), i + 1)

\* Mutant: only the exact rank is counted in correct_by_up_to_rank.
EvalWithRank_record_result_at_exact_rank(e, rank) ==
  IF rank <= max_rank_for_credit
  THEN [Eval_record_result(e, rank = 1, NoReason) EXCEPT
          !.total_credit = @ + max_rank_for_credit + 1 - rank,
          !.incorrect_by_exact_rank = Incr(@, rank),
          !.correct_by_up_to_rank = Incr(@, rank)]
  ELSE [Eval_record_result(e, rank = 1, NoReason) EXCEPT
          !.incorrect_past_max_rank = @ + 1]

\* EvalWithRank.record_result, for a rank >= 1.
EvalWithRank_record_result(e, rank) ==
  IF rank <= max_rank_for_credit
  THEN [Eval_record_result(e, rank = 1, NoReason) EXCEPT
          !.total_credit = @ + max_rank_for_credit + 1 - rank,
          !.incorrect_by_exact_rank = Incr(@, rank),
          !.correct_by_up_to_rank = incr_up_to_rank(@, rank)]
  ELSE [Eval_record_result(e, rank = 1, NoReason) EXCEPT
          !.incorrect_past_max_rank = @ + 1]

\* GeotagDocumentEval.record_result
GeotagDocumentEval_record_result(e, rank, true_dist, degree_dist) ==
  [EvalWithRank_record_result(e, rank) EXCEPT
     !.true_dists = Append(@, true_dist),
     !.degree_dists = Append(@, degree_dist)]

\* Eval.record_other_stat
record_other_stat(e, othertype) == [e EXCEPT !.other_stats = Incr(@, othertype)]

\* textutil.TableByRange(ranges, GeotagDocumentEval): one collector for each
\* range, known by the lower bound of the range.
TableByRange(ranges) ==
  [ranges |-> ranges,
   items_by_range |-> [r \in Range(ranges) |-> NewGeotagDocumentEval]]

\* The lower bound of the range that holds the value: the greatest bound that
\* is not above it, the first bound for a value below all of them.
RECURSIVE lower_range(_, _, _)
lower_range(ranges, value, bound) ==
  IF ranges = <<>> \/ Head(ranges) > value THEN bound
  ELSE lower_range(Tail(ranges), value, Head(ranges))

\* TableByRange.get_collector: the bound that names the collector.
get_collector(table, value) ==
  lower_range(table.ranges, value, table.ranges[1])

\* docs[key].record_result(...) on a defaultdict(GeotagDocumentEval).
record_in_defaultdict(docs, key, rank, true_dist, degree_dist) ==
  [k \in DOMAIN docs \cup {key} |->
     IF k = key
     THEN GeotagDocumentEval_record_result(
            IF key \in DOMAIN docs THEN docs[key] ELSE NewGeotagDocumentEval,
            rank, true_dist, degree_dist)
     ELSE docs[k]]

\* table.get_collector(value).record_result(...)
record_in_table(table, value, rank, true_dist, degree_dist) ==
  [table EXCEPT !.items_by_range[get_collector(table, value)] =
     GeotagDocumentEval_record_result(@, rank, true_dist, degree_dist)]

\* Results.dist_fractions_for_error_dist, in quarters of a region.
dist_fractions_for_error_dist ==
  << 1, 2, 3, 4, 6, 8, 12, 16, 24, 32, 48, 64, 96, 128, 192, 256, 384, 512,
     768, 1024, 1536, 2048, 3072, 4096, 6144, 8192 >>

\* The class attributes of Results when the program starts; no document is
\* being evaluated.
InitResults ==
  /\ doc = <<>>
  /\ all_toponym = NewEvalWithCandidateList
  /\ diff_surface = NewEvalWithCandidateList
  /\ diff_short = NewEvalWithCandidateList
  /\ all_document = NewGeotagDocumentEval
  /\ docs_by_naitr = TableByRange(<< 1, 10, 25, 100 >>)
  /\ docs_by_degree_dist_to_true_center = <<>>
  /\ docs_by_true_dist_to_true_center = <<>>
  /\ docs_by_degree_dist_to_pred_center =
       TableByRange(dist_fractions_for_error_dist)
  /\ docs_by_true_dist_to_pred_center =
       TableByRange(dist_fractions_for_error_dist)
  /\ yielded_regions = None
  /\ geogwords_frame = None
  /\ warnings = <<>>

\* No stopwords file was read and no evaluator was constructed.
InitEvalVars ==
  /\ stopwords = {}
  /\ strategy = None
  /\ InitResults

\* ------------------------------------------------------------------------
\* Region distributions and their cache
\* ------------------------------------------------------------------------
\* The order in which a dict of word counts is iterated.
WordOrder == << "paris", "tokyo", "wine" >>

\* The global word distribution kept by WordDist (note_globally=True): the
\* sum of the distributions of all articles that have one.
RECURSIVE GlobalCounts(_, _)
GlobalCounts(heap, k) ==
  IF k > Len(heap) THEN NoCounts
  ELSE LET rest == GlobalCounts(heap, k + 1)
       IN  IF heap[k].dist = None THEN rest
           ELSE [w \in Words |-> rest[w] + heap[k].dist.counts[w]]

\* WordDist.lookup_word: the smoothed probability of a word.  The mass kept
\* for unseen words is the mass of the words seen once; an unseen word gets
\* its share of it by the global distribution; the result is never 0.
lookup_word(dist, word, heap) ==
  LET total  == dist.total_tokens
      once   == Cardinality({w \in Words : dist.counts[w] = 1})
      unseen == IF total = 0 THEN 0 ELSE (once * Scale) \div total
      glob   == GlobalCounts(heap, 1)
      gtotal == SumSeq([k \in 1..Len(WordOrder) |-> glob[WordOrder[k]]])
      prob   == IF total > 0 /\ dist.counts[word] > 0
                THEN (dist.counts[word] * (Scale - unseen)) \div total
                ELSE IF gtotal = 0 THEN 0
                ELSE (unseen * glob[word]) \div gtotal
  IN  IF prob = 0 THEN 1 ELSE prob

\* StatRegion.yield_all_nonempty_regions
yield_all_nonempty_regions(map) == map

\* The two loops of RegionDist.__init__: the probability of the word in every
\* region, then normalised.  regionprobs is listed in dict order.
RegionDistForWord(word, map, heap) ==
  LET regs  == yield_all_nonempty_regions(map)
      probs == [k \in 1..Len(regs) |-> lookup_word(regs[k].worddist, word, heap)]
      totalprob == SumSeq(probs)
  IN  [word |-> word,
       regionprobs |-> [k \in 1..Len(regs) |->
          [reg |-> regs[k].id, prob |-> (probs[k] * Scale) \div totalprob]]]

\* Capacity of RegionDist.cached_dists (10000 in the source).
cached_dists_maxsize == 2

CacheIndex(cache, key) ==
  IF \E k \in 1..Len(cache) : cache[k].key = key
  THEN CHOOSE k \in 1..Len(cache) : cache[k].key = key
  ELSE 0

RemoveAt(s, i) == [k \in 1..(Len(s) - 1) |-> IF k < i THEN s[k] ELSE s[k + 1]]

\* LRUCache.get(key, None): the value, and the cache with key made most recent.
LRUCacheGet(cache, key) ==
  LET i == CacheIndex(cache, key)
  IN  IF i = 0 THEN [value |-> None, cache |-> cache]
      ELSE [value |-> cache[i].value,
            cache |-> Append(RemoveAt(cache, i), cache[i])]

\* LRUCache.__setitem__: evicts the least recently used entry when full.
LRUCacheSet(cache, key, value) ==
  LET i == CacheIndex(cache, key)
      entry == [key |-> key, value |-> value]
  IN  IF i # 0 THEN Append(RemoveAt(cache, i), entry)
      ELSE IF Len(cache) >= cached_dists_maxsize
        THEN Append(Tail(cache), entry)
      ELSE Append(cache, entry)

\* Mutant: the new distribution is stored without evicting an entry.
get_region_dist_no_eviction(cache, word, map, heap) ==
  LET i == CacheIndex(cache, word)
      new == RegionDistForWord(word, map, heap)
  IN  IF i # 0 THEN [dist |-> cache[i].value, cache |-> cache]
      ELSE [dist |-> new,
            cache |-> Append(cache, [key |-> word, value |-> new])]

\* Mutant: the cache is not asked for the word, but for its latest entry.
get_region_dist_stale(cache, word, map, heap) ==
  IF cache # <<>>
  THEN [dist |-> cache[Len(cache)].value, cache |-> cache]
  ELSE LET new == RegionDistForWord(word, map, heap)
       IN  [dist |-> new, cache |-> LRUCacheSet(cache, word, new)]

\* RegionDist.get_region_dist: the distribution and the cache afterwards.
get_region_dist(cache, word, map, heap) ==
  LET got == LRUCacheGet(cache, word)
  IN  IF got.value # None THEN [dist |-> got.value, cache |-> got.cache]
      ELSE LET new == RegionDistForWord(word, map, heap)
           IN  [dist |-> new, cache |-> LRUCacheSet(got.cache, word, new)]

\* regprobs[reg] += p on a floatdict listed in dict order.
AddProb(regprobs, reg, p) ==
  IF \E k \in 1..Len(regprobs) : regprobs[k].reg = reg
  THEN [k \in 1..Len(regprobs) |->
          IF regprobs[k].reg = reg
          THEN [regprobs[k] EXCEPT !.prob = @ + p] ELSE regprobs[k]]
  ELSE Append(regprobs, [reg |-> reg, prob |-> p])

RECURSIVE AddProbs(_, _, _)
AddProbs(regprobs, probs, count) ==
  IF probs = <<>> THEN regprobs
  ELSE AddProbs(AddProb(regprobs, Head(probs).reg, count * Head(probs).prob),
                Tail(probs), count)

\* The first loop of get_region_dist_for_word_dist, from word number k on.
RECURSIVE sum_region_dists(_, _, _, _, _, _)
sum_region_dists(cache, regprobs, counts, k, map, heap) ==
  IF k > Len(WordOrder) THEN [regprobs |-> regprobs, cache |-> cache]
  ELSE IF counts[WordOrder[k]] = 0
    THEN sum_region_dists(cache, regprobs, counts, k + 1, map, heap)
  ELSE LET got == get_region_dist(cache, WordOrder[k], map, heap)
       IN  sum_region_dists(got.cache,
             AddProbs(regprobs, got.dist.regionprobs, counts[WordOrder[k]]),
             counts, k + 1, map, heap)

\* RegionDist.get_region_dist_for_word_dist
get_region_dist_for_word_dist(cache, worddist, map, heap) ==
  LET summed == sum_region_dists(cache, <<>>, worddist.counts, 1, map, heap)
      regprobs == summed.regprobs
      totalprob == SumSeq([k \in 1..Len(regprobs) |-> regprobs[k].prob])
  IN  [dist |-> [word |-> None,
                 regionprobs |-> [k \in 1..Len(regprobs) |->
                    [regprobs[k] EXCEPT !.prob = (@ * Scale) \div totalprob]]],
       cache |-> summed.cache]

\* sorted(..., key=lambda x:x[1], reverse=True): a stable sort, greatest first.
RECURSIVE InsertByProb(_, _)
InsertByProb(sorted, item) ==
  IF sorted = <<>> THEN << item >>
  ELSE IF Head(sorted).prob >= item.prob
    THEN << Head(sorted) >> \o InsertByProb(Tail(sorted), item)
  ELSE << item >> \o sorted

RECURSIVE SortedByProb(_)
SortedByProb(items) ==
  IF items = <<>> THEN <<>>
  ELSE InsertByProb(SortedByProb(SubSeq(items, 1, Len(items) - 1)),
                    items[Len(items)])

\* PerWordRegionDistributionsStrategy.return_ranked_regions
return_ranked_regions(cache, worddist, map, heap) ==
  LET got == get_region_dist_for_word_dist(cache, worddist, map, heap)
      ranked == SortedByProb(got.dist.regionprobs)
  IN  [regions |-> [k \in 1..Len(ranked) |-> ranked[k].reg],
       cache |-> got.cache]

\* ------------------------------------------------------------------------
\* The regional grid: lookups and generate_all after a corpus was loaded
\* ------------------------------------------------------------------------
\* A finished article distribution with the given counts.
FinishedDist(counts) ==
  finish_word_distribution(
    set_word_distribution(NewWordDist, SumSeq([k \in 1..3 |->
        counts[<<"paris", "tokyo", "wine">>[k]]]), counts))

DistParis == FinishedDist([w \in Words |-> IF w = "paris" THEN 2 ELSE 0])
DistTokyo == FinishedDist([w \in Words |-> IF w = "wine" THEN 0 ELSE 1])

\* Coordinates of the training articles and of the lookups (micro-degrees).
CoordA == Coord(10000000, 10000000)
CoordB == Coord(-80000000, -170000000)
CoordC == Coord(80000000, 170000000)

GridArtChoices ==
  [coord : {CoordA, CoordB}, dist : {None, DistParis}, split : {"training"},
   incoming_links : {3}]

QueryCoords == {CoordB, CoordC}

\* Indices that find_region_for_region_indices is called with directly.
QueryIndices == { << 0, 0 >> }

\* The article objects created from a list of article records.
MakeHeap(as) ==
  [k \in 1..Len(as) |-> [id |-> k, location |-> None] @@ as[k]]

RECURSIVE add_articles_to_regions(_, _, _)
add_articles_to_regions(tiling, heap, k) ==
  IF k > Len(heap) THEN tiling
  ELSE add_articles_to_regions(
         IF heap[k].split = "training"
         THEN add_article_to_region(tiling, heap[k]) ELSE tiling,
         heap, k + 1)

InitGridVars(heap) ==
  /\ tiling_region_to_articles =
       add_articles_to_regions([t \in AllTiles |-> <<>>], heap, 1)
  /\ corner_to_stat_region = <<>>
  /\ empty_stat_region = None
  /\ all_regions_computed = FALSE
  /\ num_empty_regions = 0
  /\ num_non_empty_regions = 0
  /\ num_created = 0

InitGrid ==
  /\ \E width \in 1..MaxWidth : Opts = [width_of_stat_region |-> width]
  /\ \E as \in SeqsUpTo(GridArtChoices, MaxArts) : arts = MakeHeap(as)
  /\ InitGridVars(arts)
  /\ cached_dists = <<>>
  /\ InitTableVars(EmptyTable)
  /\ redirects = <<>>
  /\ nread = 0
  /\ InitCountsVars
  /\ InitGazVars
  /\ InitEvalVars
  /\ pc = "eval"
  /\ ret = [op |-> "none"]

\* Store a grid state into the class variables of StatRegion.
SetGrid(g) ==
  /\ corner_to_stat_region' = g.map
  /\ empty_stat_region' = g.empty
  /\ all_regions_computed' = g.computed
  /\ num_empty_regions' = g.nempty
  /\ num_non_empty_regions' = g.nnonempty
  /\ num_created' = g.created
  /\ UNCHANGED tiling_region_to_articles

FindRegionForCoord(coord) ==
  LET g == find_region_for_coord(GridState, coord, Opts.width_of_stat_region,
                                 tiling_region_to_articles, arts)
  IN  /\ SetGrid(g)
      /\ ret' = [op |-> "find_region_for_coord", coord |-> coord,
                 inds |-> coord_to_stat_region_indices(coord,
                                                  Opts.width_of_stat_region),
                 region |-> g.result, raised |-> g.raised]
      /\ pc = "eval"
      /\ UNCHANGED << Opts, arts, cacheVars, tableVars, loadVars, pc >>
      /\ UNCHANGED << gazVars, evalVars >>

FindRegionForRegionIndices(latind, longind) ==
  LET g == find_region_for_region_indices(GridState, latind, longind, FALSE,
             Opts.width_of_stat_region, tiling_region_to_articles, arts)
  IN  /\ SetGrid(g)
      /\ ret' = [op |-> "find_region_for_region_indices",
                 inds |-> << latind, longind >>,
                 region |-> g.result, raised |-> g.raised]
      /\ pc = "eval"
      /\ UNCHANGED << Opts, arts, cacheVars, tableVars, loadVars, pc >>
      /\ UNCHANGED << gazVars, evalVars >>

GenerateAllNonemptyRegions ==
  LET g == generate_all_nonempty_regions(GridState, Opts.width_of_stat_region,
                                         tiling_region_to_articles, arts)
  IN  /\ SetGrid(g)
      /\ ret' = [op |-> "generate_all_nonempty_regions", raised |-> g.raised]
      /\ pc = "eval"
      /\ UNCHANGED << Opts, arts, cacheVars, tableVars, loadVars, pc >>
      /\ UNCHANGED << gazVars, evalVars >>

NextGrid ==
  \/ \E coord \in QueryCoords : FindRegionForCoord(coord)
  \/ \E inds \in QueryIndices : FindRegionForRegionIndices(inds[1], inds[2])
  \/ GenerateAllNonemptyRegions

SpecGrid == InitGrid /\ [][NextGrid]_vars


\* ------------------------------------------------------------------------
\* Geotagging documents: queries after GeotagDocumentEvaluator was constructed
\* ------------------------------------------------------------------------
DocArtChoices ==
  [coord : {CoordA, CoordB}, dist : {DistParis, DistTokyo},
   split : {"training"}, incoming_links : {3}]

\* The word distributions of the documents that are evaluated.
Queries ==
  {DistParis, DistTokyo,
   FinishedDist([w \in Words |-> IF w = "tokyo" THEN 0 ELSE 1])}

\* The class state of StatRegion when the program starts.
EmptyGridState ==
  [map |-> <<>>, empty |-> None, computed |-> FALSE, nempty |-> 0,
   nnonempty |-> 0, created |-> 0, result |-> None, raised |-> FALSE]

\* GeotagDocumentEvaluator.__init__ has run generate_all_nonempty_regions on
\* the loaded corpus.
InitDoc ==
  /\ \E width \in 1..MaxWidth : Opts = [width_of_stat_region |-> width]
  /\ \E as \in SeqsUpTo(DocArtChoices, MaxArts) : arts = MakeHeap(as)
  /\ tiling_region_to_articles =
       add_articles_to_regions([t \in AllTiles |-> <<>>], arts, 1)
  /\ LET g == generate_all_nonempty_regions(EmptyGridState,
                Opts.width_of_stat_region, tiling_region_to_articles, arts)
     IN  /\ corner_to_stat_region = g.map
         /\ empty_stat_region = g.empty
         /\ all_regions_computed = g.computed
         /\ num_empty_regions = g.nempty
         /\ num_non_empty_regions = g.nnonempty
         /\ num_created = g.created
  /\ cached_dists = <<>>
  /\ InitTableVars(EmptyTable)
  /\ redirects = <<>>
  /\ nread = 0
  /\ InitCountsVars
  /\ InitGazVars
  /\ InitEvalVars
  /\ pc = "eval"
  /\ ret = [op |-> "none"]

CachedWords == {cached_dists[k].key : k \in 1..Len(cached_dists)}

GetRegionDist(word) ==
  LET got == get_region_dist(cached_dists, word, corner_to_stat_region, arts)
  IN  /\ cached_dists' = got.cache
      /\ ret' = [op |-> "get_region_dist", word |-> word, dist |-> got.dist,
                 cached_before |-> CachedWords]
      /\ UNCHANGED << Opts, arts, gridVars, tableVars, loadVars, pc >>
      /\ UNCHANGED << gazVars, evalVars >>

ReturnRankedRegions(worddist) ==
  LET got == return_ranked_regions(cached_dists, worddist,
                                   corner_to_stat_region, arts)
  IN  /\ cached_dists' = got.cache
      /\ ret' = [op |-> "return_ranked_regions", query |-> worddist,
                 regions |-> got.regions, cached_before |-> CachedWords]
      /\ UNCHANGED << Opts, arts, gridVars, tableVars, loadVars, pc >>
      /\ UNCHANGED << gazVars, evalVars >>

\* StatRegion.yield_all_nonempty_regions is called and its iterator is
\* exhausted; the assertion fails before generate_all_nonempty_regions.
\* ret.after tells which call came before this one.
YieldAllNonemptyRegions ==
  /\ pc = "eval"
  /\ IF all_regions_computed
     THEN /\ yielded_regions' =
               [regions |-> yield_all_nonempty_regions(corner_to_stat_region)]
          /\ ret' = [op |-> "yield_all_nonempty_regions", raised |-> FALSE,
                     before |-> yielded_regions, after |-> ret.op]
          /\ UNCHANGED pc
     ELSE /\ pc' = "raised"
          /\ ret' = [op |-> "yield_all_nonempty_regions", raised |-> TRUE,
                     before |-> yielded_regions, after |-> ret.op]
          /\ UNCHANGED yielded_regions
  /\ UNCHANGED << Opts, arts, gridVars, cacheVars, tableVars, loadVars,
                  gazVars, stopwords, strategy, doc, toponymVars,
                  documentVars, warnings >>

NextDoc ==
  \/ \E word \in Words : GetRegionDist(word)
  \/ \E worddist \in Queries : ReturnRankedRegions(worddist)
  \/ \E coord \in QueryCoords : FindRegionForCoord(coord)

SpecDoc == InitDoc /\ [][NextDoc]_vars

\* The regions are enumerated between lookups and scoring queries.
NextEnum ==
  \/ YieldAllNonemptyRegions
  \/ \E worddist \in Queries : ReturnRankedRegions(worddist)
  \/ \E coord \in QueryCoords : FindRegionForCoord(coord)
  \/ \E inds \in QueryIndices : FindRegionForRegionIndices(inds[1], inds[2])

SpecEnum == InitDoc /\ [][NextEnum]_vars

\* ------------------------------------------------------------------------
\* Loading the article data: read_article_data
\* ------------------------------------------------------------------------
Paris == Name("cap", "paris", "", "")
Paname == Name("cap", "paname", "", "")
Lutetia == Name("cap", "lutetia", "", "")

Titles == {Paris, Paname, Lutetia}

\* The records that the article data file may hold: articles with a
\* coordinate, redirects, an article without coordinate, a talk page.
ArticleRecord(name, redir, coord, split, namespace) ==
  [title |-> name, redir |-> redir, coord |-> coord, split |-> split,
   namespace |-> namespace, incoming_links |-> 3]

RecordChoices ==
  {ArticleRecord(t, NoName, CoordA, sp, "Main") :
     t \in Titles, sp \in {"training", "dev"}}
  \cup {ArticleRecord(t, r, None, "training", "Main") :
          t \in Titles, r \in {lower(Paris), Paname, Lutetia}}
  \cup {ArticleRecord(Paris, NoName, None, "training", "Main"),
        ArticleRecord(Paris, NoName, CoordA, "training", "Talk")}

InitArticles ==
  /\ Opts = [width_of_stat_region |-> 1]
  /\ arts = <<>>
  /\ InitGridVars(arts)
  /\ cached_dists = <<>>
  /\ InitTableVars(EmptyTable)
  /\ redirects = <<>>
  /\ nread = 0
  /\ InitCountsVars
  /\ InitGazVars
  /\ InitEvalVars
  /\ pc = "read_article_data"
  /\ ret = [op |-> "none"]

\* read_article_data_file calls process on the next record of the file.
Process(rec) ==
  /\ UNCHANGED << gazVars, evalVars >>
  /\ pc = "read_article_data"
  /\ nread < MaxRecords
  /\ LET st == process(LoadState, rec)
     IN  /\ SetTable(st.table)
         /\ tiling_region_to_articles' = st.tiling
         /\ arts' = st.heap
         /\ redirects' = st.redirects
  /\ nread' = nread + 1
  /\ ret' = [op |-> "process", rec |-> rec]
  /\ UNCHANGED << title, total_tokens, wordhash >>
  /\ UNCHANGED << Opts, corner_to_stat_region, empty_stat_region,
                  all_regions_computed, num_empty_regions,
                  num_non_empty_regions, num_created, cacheVars, pc >>

\* The file is read (or the time for the stage is over): the redirects are
\* recorded and read_article_data returns.
FinishReadArticleData ==
  /\ UNCHANGED << gazVars, evalVars >>
  /\ pc = "read_article_data"
  /\ SetTable(record_redirects(Table, redirects, arts))
  /\ pc' = "loaded"
  /\ ret' = [op |-> "read_article_data"]
  /\ UNCHANGED << Opts, arts, gridVars, cacheVars, loadVars >>

NextArticles ==
  \/ \E rec \in RecordChoices : Process(rec)
  \/ FinishReadArticleData

SpecArticles == InitArticles /\ [][NextArticles]_vars

\* ------------------------------------------------------------------------
\* Loading the word counts: read_word_counts, then regions are generated
\* ------------------------------------------------------------------------
Tokyo == Name("cap", "tokyo", "", "")

\* The article data files that were loaded before the counts are read.
CountsCorpora ==
  { << ArticleRecord(Paris, NoName, CoordA, "training", "Main"),
       ArticleRecord(Paname, NoName, CoordB, "dev", "Main"),
       ArticleRecord(Lutetia, lower(Paris), None, "training", "Main") >>,
    << ArticleRecord(Paris, NoName, CoordB, "training", "Main"),
       ArticleRecord(Paname, NoName, CoordB, "training", "Main") >>,
    << ArticleRecord(Paris, NoName, CoordA, "dev", "Main") >> }

\* Titles of the blocks of the counts file; Tokyo is in no corpus.
CountsTitles == {Paris, Paname, Lutetia, Tokyo}

\* The lines `word = count' of the counts file.
CountsLines == { << "paris", 1 >>, << "wine", 2 >> }

InitCounts ==
  /\ \E budget \in 0..MaxElapsed :
       Opts = [width_of_stat_region |-> 1, max_time_per_stage |-> budget]
  /\ \E recs \in CountsCorpora :
       LET st == read_article_data(recs)
       IN  /\ arts = st.heap
           /\ tiling_region_to_articles = st.tiling
           /\ InitTableVars(st.table)
           /\ redirects = st.redirects
  /\ corner_to_stat_region = <<>>
  /\ empty_stat_region = None
  /\ all_regions_computed = FALSE
  /\ num_empty_regions = 0
  /\ num_non_empty_regions = 0
  /\ num_created = 0
  /\ cached_dists = <<>>
  /\ nread = 0
  /\ InitCountsVars
  /\ InitGazVars
  /\ InitEvalVars
  /\ pc = "read_word_counts"
  /\ ret = [op |-> "none"]

\* The end of read_word_counts, after the loop: all distributions are finished.
FinishWordCounts(heap, early) ==
  /\ arts' = finish_article_distributions(Table, heap)
  /\ pc' = "eval"
  /\ ret' = [op |-> "read_word_counts", stopped_early |-> early]

\* A line `Article title: ...' is read, when status.item_processed()
\* returns elapsed.
ReadTitleLine(newtitle, elapsed) ==
  /\ UNCHANGED << gazVars, stopwords, strategy, doc, toponymVars,
                  documentVars, yielded_regions >>
  /\ pc = "read_word_counts"
  /\ nread < MaxLines
  /\ nread' = nread + 1
  /\ warnings' = IF title # NoName
                 THEN one_article_warning(Table, warnings, title, total_tokens)
                 ELSE warnings
  /\ LET heap == IF title # NoName
                 THEN one_article_probs(Table, arts, title, total_tokens,
                                        wordhash)
                 ELSE arts
     IN  IF elapsed >= Opts.max_time_per_stage
         THEN /\ FinishWordCounts(heap, TRUE)
              /\ UNCHANGED << title, total_tokens, wordhash >>
         ELSE /\ arts' = heap
              /\ title' = newtitle
              /\ wordhash' = NoCounts
              /\ total_tokens' = 0
              /\ ret' = [op |-> "title_line"]
              /\ UNCHANGED pc
  /\ UNCHANGED << Opts, gridVars, cacheVars, tableVars, redirects >>

\* A line `word = count' is read.  Before the first title line wordhash is not
\* bound and the line raises a NameError, after total_tokens was updated.
ReadCountLine(word, count) ==
  /\ UNCHANGED << gazVars, evalVars >>
  /\ pc = "read_word_counts"
  /\ nread < MaxLines
  /\ nread' = nread + 1
  /\ total_tokens' = total_tokens + count
  /\ IF title = NoName
     THEN /\ pc' = "raised"
          /\ ret' = [op |-> "count_line", raised |-> TRUE]
          /\ UNCHANGED wordhash
     ELSE /\ wordhash' = [wordhash EXCEPT ![word] = @ + count]
          /\ ret' = [op |-> "count_line", raised |-> FALSE]
          /\ UNCHANGED pc
  /\ UNCHANGED << Opts, arts, gridVars, cacheVars, tableVars, redirects,
                  title >>

\* A line `Article coordinates: ...' or `Article ID: ...', or a line that
\* cannot be parsed, is read.
ReadOtherLine ==
  /\ UNCHANGED << gazVars, evalVars >>
  /\ pc = "read_word_counts"
  /\ nread < MaxLines
  /\ nread' = nread + 1
  /\ ret' = [op |-> "other_line"]
  /\ UNCHANGED << Opts, arts, gridVars, cacheVars, tableVars, redirects,
                  title, total_tokens, wordhash, pc >>

\* The end of the file is reached: the else clause of the loop.
EndOfCounts ==
  /\ UNCHANGED << gazVars, stopwords, strategy, doc, toponymVars,
                  documentVars, yielded_regions >>
  /\ pc = "read_word_counts"
  /\ warnings' = one_article_warning(Table, warnings, title, total_tokens)
  /\ FinishWordCounts(one_article_probs(Table, arts, title, total_tokens,
                                        wordhash), FALSE)
  /\ UNCHANGED << Opts, gridVars, cacheVars, tableVars, loadVars >>

NextCounts ==
  \/ \E t \in CountsTitles, elapsed \in 0..MaxElapsed : ReadTitleLine(t, elapsed)
  \/ \E line \in CountsLines : ReadCountLine(line[1], line[2])
  \/ ReadOtherLine
  \/ EndOfCounts
  \/ \E coord \in QueryCoords : FindRegionForCoord(coord)
  \/ GenerateAllNonemptyRegions

SpecCounts == InitCounts /\ [][NextCounts]_vars

\* ------------------------------------------------------------------------
\* Distances and boundaries
\* ------------------------------------------------------------------------
\* Distances are whole numbers of 1/MilesUnit mile.
MilesUnit == 1000

\* The coordinates of the gazetteer entries and of the articles they are
\* matched with (micro-degrees).
LocCoord1 == Coord(40000000, -74000000)
LocCoord2 == Coord(41000000, -73000000)
ArtCoordNear == Coord(40010000, -74000000)
ArtCoordClose == Coord(40050000, -73950000)
ArtCoordMid == Coord(40100000, -73900000)
ArtCoordFar == Coord(40700000, -74200000)

\* earth_radius_in_miles * acos(anglecos) for these coordinates, rounded to
\* 1/1000 mile: 0.692, 4.356, 8.711, 49.554 miles from LocCoord1, and
\* 86.344, 82.540, 78.185, 66.127 miles from LocCoord2.
SphereDistTable ==
  << << LocCoord1, ArtCoordNear, 692 >>, << LocCoord1, ArtCoordClose, 4356 >>,
     << LocCoord1, ArtCoordMid, 8711 >>, << LocCoord1, ArtCoordFar, 49554 >>,
     << LocCoord2, ArtCoordNear, 86344 >>, << LocCoord2, ArtCoordClose, 82540 >>,
     << LocCoord2, ArtCoordMid, 78185 >>, << LocCoord2, ArtCoordFar, 66127 >> >>

\* spheredist: the distance in miles along a great circle.
spheredist(p1, p2) ==
  IF p1 = None \/ p2 = None THEN 1000000 * MilesUnit
  ELSE IF p1 = p2 THEN 0
  ELSE LET k == CHOOSE k \in 1..Len(SphereDistTable) :
                  {SphereDistTable[k][1], SphereDistTable[k][2]} = {p1, p2}
       IN  SphereDistTable[k][3]

Boundary(botleft, topright) == [botleft |-> botleft, topright |-> topright]

\* Boundary.__contains__
Boundary_contains(boundary, coord) ==
  /\ coord.lat >= boundary.botleft.lat
  /\ coord.lat <= boundary.topright.lat
  /\ coord.long >= boundary.botleft.long
  /\ coord.long <= boundary.topright.long

\* ------------------------------------------------------------------------
\* Localities and divisions
\* ------------------------------------------------------------------------
\* Locality.__init__; match is the id of the matched article, 0 for None.
NewLocality(name, coord) ==
  [name |-> name, coord |-> coord, altnames |-> <<>>, match |-> 0,
   stat_region |-> None]

\* Division.__init__; a division is known by its path, locs holds the ids
\* of its localities.
NewDivision(path) ==
  [name |-> path[Len(path)], altnames |-> <<>>, path |-> path,
   level |-> Len(path), locs |-> <<>>, match |-> 0, worddist |-> None]

\* Mutant: no path is found in path_to_division.
DivisionIndex_of_unseen_path(divs, path) == 0

\* Position of the division of a path in path_to_division, 0 if it has none.
DivisionIndex(divs, path) ==
  IF \E k \in 1..Len(divs) : divs[k].path = path
  THEN CHOOSE k \in 1..Len(divs) : divs[k].path = path
  ELSE 0

RECURSIVE MinOf(_)
MinOf(s) ==
  IF Len(s) = 1 THEN s[1]
  ELSE LET m == MinOf(Tail(s)) IN IF m < s[1] THEN m ELSE s[1]

RECURSIVE MaxOf(_)
MaxOf(s) ==
  IF Len(s) = 1 THEN s[1]
  ELSE LET m == MaxOf(Tail(s)) IN IF m > s[1] THEN m ELSE s[1]

\* Division.compute_boundary.yield_non_outliers: both branches yield all locs.
yield_non_outliers(division) ==
  IF Len(division.locs) <= 5 THEN division.locs ELSE division.locs

\* Mutant: the boundary is the point of the first locality.
compute_boundary_of_first_loc(division, locs) ==
  [division EXCEPT
     !.goodlocs = << division.locs[1] >>,
     !.boundary = Boundary(locs[division.locs[1]].coord,
                           locs[division.locs[1]].coord)]

\* Division.compute_boundary; locs are the Locality objects by id.
compute_boundary(division, locs) ==
  LET yielded  == yield_non_outliers(division)
      goodlocs == IF Len(yielded) = 0 THEN division.locs ELSE yielded
      lats     == [k \in 1..Len(goodlocs) |-> locs[goodlocs[k]].coord.lat]
      longs    == [k \in 1..Len(goodlocs) |-> locs[goodlocs[k]].coord.long]
      topleft  == Coord(MinOf(lats), MinOf(longs))
      botright == Coord(MaxOf(lats), MaxOf(longs))
  IN  [division EXCEPT !.goodlocs = goodlocs,
                       !.boundary = Boundary(topleft, botright)]

\* Division.__contains__
Division_contains(division, coord) ==
  Boundary_contains(division.boundary, coord)

\* No division: None where a Division is expected, which is known by its
\* path.
NoDivision == <<>>

\* The class attributes that note_point_seen_in_division works on.
DivisionState(divs, topdiv) ==
  [divs |-> divs, lower_toponym_to_division |-> topdiv, result |-> NoDivision]

\* Division.note_point_seen_in_division; result is the path of the division
\* returned, or NoDivision.
RECURSIVE note_point_seen_in_division(_, _, _)
note_point_seen_in_division(g, loc, path) ==
  LET h == IF Len(path) > 1
           THEN note_point_seen_in_division(g, loc,
                                            SubSeq(path, 1, Len(path) - 1))
           ELSE [g EXCEPT !.result = NoDivision]
      higherdiv == h.result
      last == path[Len(path)]
      k == DivisionIndex(h.divs, path)
      division == [div |-> higherdiv, boundary |-> None, goodlocs |-> <<>>]
                    @@ NewDivision(path)
      seen == IF k # 0 THEN h
              ELSE [h EXCEPT
                      !.divs = Append(@, division),
                      !.lower_toponym_to_division =
                         AddToList(@, lower(last), path)]
      i == IF k # 0 THEN k ELSE Len(seen.divs)
  IN  IF last = NoName THEN h
      ELSE [seen EXCEPT !.divs[i].locs = Append(@, loc), !.result = path]

\* ------------------------------------------------------------------------
\* Matching locations with articles
\* ------------------------------------------------------------------------
\* The loop `for art in list: if check_match(loc, art): return art'; passes
\* holds the articles that check_match accepts, the result is 0 for none.
RECURSIVE first_match(_, _)
first_match(list, passes) ==
  IF list = <<>> THEN 0
  ELSE IF Head(list) \in passes THEN Head(list)
  ELSE first_match(Tail(list), passes)

\* div.lower() of an element of a path; the empty string for an empty one.
div_lower(div) == IF div = NoName THEN "" ELSE lower(div).base

\* `if match: return match', else go on with what follows.
match_or(match, other) == IF match # 0 THEN match ELSE other

\* The loop over loc.div.path of find_one_wikipedia_match.
RECURSIVE first_match_in_divisions(_, _, _, _)
first_match_in_divisions(t, loname, path, passes) ==
  IF path = <<>> THEN 0
  ELSE match_or(first_match(ListOf(t.lower_name_div_to_articles,
                                   << loname, div_lower(Head(path)) >>),
                            passes),
                first_match_in_divisions(t, loname, Tail(path), passes))

\* The comparison of list.sort with cmp = 1 if prefer_match(x, y) else -1:
\* x is less than y when cmp(x, y) < 0.
ISLT(prefers, x, y) == ~prefers[<< x, y >>]

reverse_slice(s) == [k \in 1..Len(s) |-> s[Len(s) + 1 - k]]

\* listsort.count_run: the length of the run that starts the list and
\* whether it is (strictly) descending.
RECURSIVE count_run_to(_, _, _, _)
count_run_to(s, n, descending, prefers) ==
  IF n = Len(s) THEN n
  ELSE IF ISLT(prefers, s[n + 1], s[n]) = descending
  THEN count_run_to(s, n + 1, descending, prefers)
  ELSE n

count_run(s, prefers) ==
  IF Len(s) = 1 THEN [n |-> 1, descending |-> FALSE]
  ELSE LET descending == ISLT(prefers, s[2], s[1])
       IN  [n |-> count_run_to(s, 2, descending, prefers),
            descending |-> descending]

\* The binary search of binarysort for the place of pivot in s[l..r-1].
RECURSIVE binary_search(_, _, _, _, _)
binary_search(s, pivot, l, r, prefers) ==
  LET p  == l + ((r - l) \div 2)
      l2 == IF ISLT(prefers, pivot, s[p]) THEN l ELSE p + 1
      r2 == IF ISLT(prefers, pivot, s[p]) THEN p ELSE r
  IN  IF l2 < r2 THEN binary_search(s, pivot, l2, r2, prefers) ELSE l2

\* The end of a turn of binarysort: s[start] is moved to position l.
move_pivot(s, start, l) ==
  [k \in 1..Len(s) |->
     IF k < l \/ k > start THEN s[k]
     ELSE IF k = l THEN s[start] ELSE s[k - 1]]

\* listsort.binarysort: s[1..start-1] is sorted, the rest is inserted.
RECURSIVE binarysort(_, _, _)
binarysort(s, start, prefers) ==
  IF start > Len(s) THEN s
  ELSE binarysort(
         move_pivot(s, start, binary_search(s, s[start], 1, start, prefers)),
         start + 1, prefers)

\* The start of list.sort: a descending run is reversed in place.
ascending_run(s, run) ==
  IF run.descending
  THEN reverse_slice(SubSeq(s, 1, run.n)) \o SubSeq(s, run.n + 1, Len(s))
  ELSE s

sort_after_run(s, run, prefers) ==
  binarysort(ascending_run(s, run), run.n + 1, prefers)

\* list.sort of a list shorter than 64: one run, extended by binarysort.
listsort(s, prefers) ==
  IF Len(s) < 2 THEN s ELSE sort_after_run(s, count_run(s, prefers), prefers)

\* sorted(goodarts, cmp=..., reverse=True): the list is reversed before and
\* after it is sorted.
sorted_reverse(s, prefers) == reverse_slice(listsort(reverse_slice(s), prefers))

\* [art for art in arts if check_match(loc, art)]
RECURSIVE good_articles(_, _)
good_articles(list, passes) ==
  IF list = <<>> THEN <<>>
  ELSE IF Head(list) \in passes
  THEN << Head(list) >> \o good_articles(Tail(list), passes)
  ELSE good_articles(Tail(list), passes)

\* The end of find_one_wikipedia_match: the one good article, or the most
\* preferred of several, or None.
preferred_match(goodarts, prefers) ==
  IF Len(goodarts) = 1 THEN goodarts[1]
  ELSE IF Len(goodarts) > 1 THEN sorted_reverse(goodarts, prefers)[1]
  ELSE 0

\* Mutant: only the articles with the short form of the name are looked at.
find_one_wikipedia_match_by_short_form(t, loc, name, passes, prefers) ==
  preferred_match(
    good_articles(ListOf(t.short_lower_name_to_articles, lower(name)), passes),
    prefers)

\* ArticleTable.find_one_wikipedia_match: passes and prefers are check_match
\* and prefer_match for loc; the result is 0 for None.
find_one_wikipedia_match(t, loc, name, passes, prefers) ==
  match_or(
    first_match(ListOf(t.lower_name_to_articles, lower(name)), passes),
    match_or(
      IF loc.div # NoDivision
      THEN first_match_in_divisions(t, lower(name), loc.div, passes) ELSE 0,
      preferred_match(
        good_articles(ListOf(t.short_lower_name_to_articles, lower(name)),
                      passes),
        prefers)))

\* The loop over loc.altnames of find_wikipedia_match.
RECURSIVE first_match_of_names(_, _, _, _, _)
first_match_of_names(t, loc, names, passes, prefers) ==
  IF names = <<>> THEN 0
  ELSE match_or(
         find_one_wikipedia_match(t, loc, Head(names), passes, prefers),
         first_match_of_names(t, loc, Tail(names), passes, prefers))

\* ArticleTable.find_wikipedia_match
find_wikipedia_match(t, loc, passes, prefers) ==
  first_match_of_names(t, loc, << loc.name >> \o loc.altnames, passes, prefers)

\* find_match_for_locality.check_match; maxdist is in miles.
locality_check_match(loc, art, maxdist) ==
  spheredist(loc.coord, art.coord) <= maxdist * MilesUnit

\* find_match_for_locality.prefer_match
locality_prefer_match(loc, art1, art2) ==
  spheredist(loc.coord, art1.coord) < spheredist(loc.coord, art2.coord)

\* ArticleTable.find_match_for_locality
find_match_for_locality(t, loc, maxdist, heap) ==
  find_wikipedia_match(t, loc,
    {a \in DOMAIN heap : locality_check_match(loc, heap[a], maxdist)},
    [p \in (DOMAIN heap) \X (DOMAIN heap) |->
       locality_prefer_match(loc, heap[p[1]], heap[p[2]])])

\* find_match_for_division.check_match
division_check_match(loc, art) ==
  art.coord # None /\ Division_contains(loc, art.coord)

\* Mutant: the article with fewer incoming links is preferred.
division_prefer_match_fewer_links(loc, art1, art2) ==
  IF art1.incoming_links # NoLinks /\ art2.incoming_links # NoLinks
  THEN art1.incoming_links < art2.incoming_links
  ELSE TRUE

\* find_match_for_division.prefer_match
division_prefer_match(loc, art1, art2) ==
  IF art1.incoming_links # NoLinks /\ art2.incoming_links # NoLinks
  THEN art1.incoming_links > art2.incoming_links
  ELSE TRUE

\* ArticleTable.find_match_for_division
find_match_for_division(t, loc, heap) ==
  find_wikipedia_match(t, loc,
    {a \in DOMAIN heap : division_check_match(loc, heap[a])},
    [p \in (DOMAIN heap) \X (DOMAIN heap) |->
       division_prefer_match(loc, heap[p[1]], heap[p[2]])])

\* ------------------------------------------------------------------------
\* The World gazetteer
\* ------------------------------------------------------------------------
\* Mutant: the ring is widened up to the limit even after a hit.
RECURSIVE match_ring_without_break(_, _, _, _, _, _)
match_ring_without_break(t, loc, maxdist, limit, heap, tried) ==
  IF maxdist <= limit
  THEN match_ring_without_break(t, loc, maxdist * 2, limit, heap,
         Append(tried, [maxdist |-> maxdist,
                        match |-> find_match_for_locality(t, loc, maxdist,
                                                          heap)]))
  ELSE tried

RECURSIVE match_ring(_, _, _, _, _, _)

\* The end of a turn of the loop: break on a match, else double the radius.
ring_step(t, loc, maxdist, limit, heap, tried, match) ==
  IF match # 0 THEN Append(tried, [maxdist |-> maxdist, match |-> match])
  ELSE match_ring(t, loc, maxdist * 2, limit, heap,
                  Append(tried, [maxdist |-> maxdist, match |-> match]))

\* The loop of match_world_gazetteer_entry that widens the ring: the radii
\* tried and what find_match_for_locality returned for each.
match_ring(t, loc, maxdist, limit, heap, tried) ==
  IF maxdist <= limit
  THEN ring_step(t, loc, maxdist, limit, heap, tried,
                 find_match_for_locality(t, loc, maxdist, heap))
  ELSE tried

\* The objects and class attributes that the gazetteer is read into.
GazState ==
  [localities |-> localities, divs |-> path_to_division,
   lower_toponym_to_location |-> lower_toponym_to_location,
   lower_toponym_to_division |-> lower_toponym_to_division, heap |-> arts,
   loc |-> 0, tried |-> <<>>, skipped |-> FALSE, raised |-> FALSE]

\* The loop over [loc.name] + loc.altnames that records the location.
RECURSIVE note_location_names(_, _, _)
note_location_names(toploc, names, loc) ==
  IF names = <<>> THEN toploc
  ELSE note_location_names(AddToList(toploc, lower(Head(names)), loc),
                           Tail(names), loc)

\* The Locality object of an entry, in the division of the given path.
locality_of_entry(entry, div) ==
  [type |-> entry.type, div |-> div] @@
  [NewLocality(entry.name, Coord(entry.lat * 10000, entry.long * 10000))
     EXCEPT !.altnames = entry.altnames]

\* The location is recorded under its names, after its divisions were noted.
record_location(st, id, loc, noted) ==
  [st EXCEPT
     !.localities = Append(@, loc),
     !.divs = noted.divs,
     !.lower_toponym_to_division = noted.lower_toponym_to_division,
     !.lower_toponym_to_location =
        note_location_names(@, << loc.name >> \o loc.altnames, id),
     !.loc = id]

\* The end of match_world_gazetteer_entry, after the ring was widened.  When
\* no radius was tried the local variable match is not bound, and reading it
\* raises an UnboundLocalError.
record_match(st, id, tried) ==
  IF tried = <<>> THEN [st EXCEPT !.tried = tried, !.raised = TRUE]
  ELSE IF tried[Len(tried)].match = 0 THEN [st EXCEPT !.tried = tried]
  ELSE [st EXCEPT
          !.tried = tried,
          !.localities[id].match = tried[Len(tried)].match,
          !.heap[tried[Len(tried)].match].location =
             [kind |-> "Locality", loc |-> id]]

match_location(st, t, limit, id, loc, noted) ==
  record_match(record_location(st, id, loc, noted), id,
               match_ring(t, loc, 5, limit, st.heap, <<>>))

match_noted_point(st, t, limit, entry, id, noted) ==
  match_location(st, t, limit, id, locality_of_entry(entry, noted.result),
                 noted)

\* WorldGazetteer.match_world_gazetteer_entry.  An entry has lat and long in
\* 1/100 degree, NoneInd for an empty field.
match_world_gazetteer_entry(st, t, limit, entry) ==
  IF entry.lat = NoneInd \/ entry.long = NoneInd
  THEN [st EXCEPT !.skipped = TRUE]
  ELSE match_noted_point(st, t, limit, entry, Len(st.localities) + 1,
         note_point_seen_in_division(
           DivisionState(st.divs, st.lower_toponym_to_division),
           Len(st.localities) + 1,
           << entry.div1, entry.div2, entry.div3 >>))

\* The end of a turn of the loop over the divisions: the match is recorded.
record_division_match(st, k, division, match) ==
  IF match # 0
  THEN [st EXCEPT
          !.divs[k] = [division EXCEPT !.match = match],
          !.heap[match].location =
             [kind |-> "Division", path |-> division.path]]
  ELSE [st EXCEPT !.divs[k] = division]

match_bounded_division(st, t, k, division) ==
  record_division_match(st, k, division,
                        find_match_for_division(t, division, st.heap))

\* The body of the loop over the divisions in read_world_gazetteer_and_match.
match_division(st, t, k) ==
  match_bounded_division(st, t, k, compute_boundary(st.divs[k], st.localities))

\* The loop over Division.path_to_division.itervalues(), in the given order.
RECURSIVE match_divisions(_, _, _)
match_divisions(st, t, order) ==
  IF order = <<>> THEN st
  ELSE match_divisions(match_division(st, t, Head(order)), t, Tail(order))

\* ------------------------------------------------------------------------
\* Reading the gazetteer: read_world_gazetteer_and_match
\* ------------------------------------------------------------------------
MaxEntries == 2

France == Name("cap", "france", "", "")
Lutece == Name("cap", "lutece", "", "")
ParisFrance == Name("cap", "paris", "france", "")
ParisDept == Name("cap", "paris", "", "department")
ParisCity == Name("cap", "paris", "", "city")

GazArticle(name, coord, links) ==
  [ArticleRecord(name, NoName, coord, "training", "Main")
     EXCEPT !.incoming_links = links]

\* The article data files that were loaded before the gazetteer is read.
GazCorpora ==
  { << GazArticle(Paris, ArtCoordClose, 1),
       GazArticle(ParisFrance, ArtCoordNear, 5),
       GazArticle(ParisDept, ArtCoordMid, 3) >>,
    << GazArticle(ParisFrance, ArtCoordMid, 3),
       GazArticle(ParisDept, ArtCoordClose, 5),
       GazArticle(ParisCity, ArtCoordNear, 1) >>,
    << GazArticle(Paris, ArtCoordMid, NoLinks),
       GazArticle(ParisDept, ArtCoordFar, 2) >> }

\* A line of the gazetteer: lat and long in 1/100 degree, NoneInd for an
\* empty field; NoName for an empty division.
GazEntry(name, altnames, lat, long, div1, div2, div3) ==
  [name |-> name, altnames |-> altnames, type |-> "locality", lat |-> lat,
   long |-> long, div1 |-> div1, div2 |-> div2, div3 |-> div3]

GazEntries ==
  { GazEntry(Paris, <<>>, 4000, -7400, France, Paris, NoName),
    GazEntry(Lutece, << Paris >>, 4100, -7300, France, Paris, NoName),
    GazEntry(Paris, <<>>, NoneInd, NoneInd, France, NoName, NoName),
    GazEntry(Paris, <<>>, 4000, -7400, NoName, NoName, NoName),
    GazEntry(Lutece, <<>>, 4100, -7300, Paris, NoName, NoName),
    GazEntry(Paris, <<>>, 4000, -7400, Paris, NoName, NoName) }

\* Values of --max-dist-for-close-match, in miles.
MaxDistChoices == {4, 10, 25}

InitGaz ==
  /\ \E limit \in MaxDistChoices :
       Opts = [width_of_stat_region |-> 1, max_time_per_stage |-> 1,
               max_dist_for_close_match |-> limit]
  /\ \E recs \in GazCorpora :
       LET st == read_article_data(recs)
       IN  /\ arts = st.heap
           /\ tiling_region_to_articles = st.tiling
           /\ InitTableVars(st.table)
           /\ redirects = st.redirects
  /\ corner_to_stat_region = <<>>
  /\ empty_stat_region = None
  /\ all_regions_computed = FALSE
  /\ num_empty_regions = 0
  /\ num_non_empty_regions = 0
  /\ num_created = 0
  /\ cached_dists = <<>>
  /\ nread = 0
  /\ InitCountsVars
  /\ InitGazVars
  /\ InitEvalVars
  /\ pc = "read_world_gazetteer"
  /\ ret = [op |-> "none"]

\* Store what the gazetteer was read into.
SetGaz(st) ==
  /\ localities' = st.localities
  /\ path_to_division' = st.divs
  /\ lower_toponym_to_location' = st.lower_toponym_to_location
  /\ lower_toponym_to_division' = st.lower_toponym_to_division
  /\ arts' = st.heap

\* One turn of the loop over the lines of the gazetteer, when
\* status.item_processed() returns elapsed.
MatchWorldGazetteerEntry(entry, elapsed) ==
  LET st == match_world_gazetteer_entry(GazState, Table,
              Opts.max_dist_for_close_match, entry)
  IN  /\ pc = "read_world_gazetteer"
      /\ nread < MaxEntries
      /\ SetGaz(st)
      /\ ret' = [op |-> "match_world_gazetteer_entry", entry |-> entry,
                 loc |-> st.loc, tried |-> st.tried,
                 skipped |-> st.skipped, raised |-> st.raised]
      /\ pc' = IF st.raised THEN "raised"
               ELSE IF elapsed >= Opts.max_time_per_stage THEN "divisions"
               ELSE pc
      /\ nread' = nread + 1
      /\ UNCHANGED << Opts, gridVars, cacheVars, tableVars, redirects, title,
                      total_tokens, wordhash, evalVars >>

\* The last line of the gazetteer was read.
EndOfGazetteer ==
  /\ pc = "read_world_gazetteer"
  /\ pc' = "divisions"
  /\ ret' = [op |-> "end_of_gazetteer"]
  /\ UNCHANGED << Opts, arts, gridVars, cacheVars, tableVars, loadVars,
                  gazVars, evalVars >>

\* The orders in which a dict of n entries may be iterated.
Orders(n) ==
  {order \in [1..n -> 1..n] :
     \A i, j \in 1..n : order[i] = order[j] => i = j}

\* The loop over the divisions that ends read_world_gazetteer_and_match.
MatchDivisions(order) ==
  /\ pc = "divisions"
  /\ SetGaz(match_divisions(GazState, Table, order))
  /\ pc' = "matched"
  /\ ret' = [op |-> "read_world_gazetteer_and_match", order |-> order]
  /\ UNCHANGED << Opts, gridVars, cacheVars, tableVars, loadVars, evalVars >>

NextGaz ==
  \/ \E entry \in GazEntries, elapsed \in 0..MaxElapsed :
       MatchWorldGazetteerEntry(entry, elapsed)
  \/ EndOfGazetteer
  \/ \E order \in Orders(Len(path_to_division)) : MatchDivisions(order)

SpecGaz == InitGaz /\ [][NextGaz]_vars

\* ------------------------------------------------------------------------
\* Geotagging toponyms: strategies
\* ------------------------------------------------------------------------
\* Scores are whole numbers of 1/ScoreUnit, so that 0.01 is 1.
ScoreUnit == 100

\* Mutant: an article without link count is taken to have one link.
get_adjusted_incoming_links_missing_as_one(art) ==
  IF art.incoming_links = NoLinks THEN ScoreUnit
  ELSE IF art.incoming_links = 0 THEN ScoreUnit \div 100
  ELSE art.incoming_links * ScoreUnit

\* get_adjusted_incoming_links: 0.01 for a count that is None or zero.
get_adjusted_incoming_links(art) ==
  IF art.incoming_links = NoLinks \/ art.incoming_links = 0
  THEN ScoreUnit \div 100
  ELSE art.incoming_links * ScoreUnit

\* LinkBaselineStrategy() and NaiveBayesStrategy(use_baseline)
LinkBaselineStrategy == [class |-> "LinkBaselineStrategy"]
NaiveBayesStrategy(use_baseline) ==
  [class |-> "NaiveBayesStrategy", use_baseline |-> use_baseline]

\* need_context of the two classes; the body of NaiveBayesStrategy defines it
\* twice, both times as True.
need_context(strat) == strat.class = "NaiveBayesStrategy"

\* LinkBaselineStrategy.compute_score
LinkBaselineStrategy_compute_score(geogword, art) ==
  get_adjusted_incoming_links(art)

\* NaiveBayesStrategy.compute_score.  The class body binds compute_score
\* twice: first to the weighted sum of the log word probabilities, then, at
\* its end, to the link count once more.  The class keeps the last binding,
\* so the first one is never called.
NaiveBayesStrategy_compute_score(strat, geogword, art) ==
  get_adjusted_incoming_links(art)

\* self.strategy.compute_score(geogword, art)
compute_score(strat, geogword, art) ==
  IF strat.class = "LinkBaselineStrategy"
  THEN LinkBaselineStrategy_compute_score(geogword, art)
  ELSE NaiveBayesStrategy_compute_score(strat, geogword, art)

\* ------------------------------------------------------------------------
\* Geotagging toponyms: documents and their context
\* ------------------------------------------------------------------------
\* GeogWord.__init__ and what yield_geogwords sets; coord and location are
\* None for a word without ground truth.
GeogWord(word, is_toponym, coord, location) ==
  [word |-> word, is_stop |-> FALSE, is_toponym |-> is_toponym,
   coord |-> coord, location |-> location, context |-> None]

\* range(a, b): a, a+1, ..., b-1, empty when b <= a.
range(a, b) == [k \in 1..(IF b > a THEN b - a ELSE 0) |-> a + k - 1]

\* zip(s1, s2): as long as the shorter list.
zip(s1, s2) ==
  [k \in 1..(IF Len(s1) < Len(s2) THEN Len(s1) ELSE Len(s2)) |->
     << s1[k], s2[k] >>]

\* [(dist, x.word) for (dist, x) in pairs if x.word not in stopwords]
RECURSIVE context_words(_, _)
context_words(pairs, stops) ==
  IF pairs = <<>> THEN <<>>
  ELSE (IF Head(pairs)[2].word \notin stops
        THEN << << Head(pairs)[1], Head(pairs)[2].word >> >> ELSE <<>>)
       \o context_words(Tail(pairs), stops)

\* The context of results[i]; i counts from 0 as in the source.
context_between(results, i, minind, maxind, stops) ==
  context_words(zip(range(i - minind, i - maxind),
                    SubSeq(results, minind + 1, maxind)),
                stops)

context_at(results, i, nbcl, stops) ==
  context_between(results, i,
                  IF i - nbcl > 0 THEN i - nbcl ELSE 0,
                  IF Len(results) < i + nbcl + 1 THEN Len(results)
                  ELSE i + nbcl + 1,
                  stops)

\* The first loop under need_context: is_stop of every word.
mark_stopwords(results, stops) ==
  [k \in 1..Len(results) |->
     [results[k] EXCEPT
        !.is_stop = (results[k].coord = None /\ results[k].word \in stops)]]

\* The second loop under need_context: context of every toponym with coord.
add_contexts(results, nbcl, stops) ==
  [k \in 1..Len(results) |->
     IF results[k].coord # None
     THEN [results[k] EXCEPT !.context = context_at(results, k - 1, nbcl, stops)]
     ELSE results[k]]

\* [word for word in results if word.coord]
RECURSIVE words_with_coord(_)
words_with_coord(results) ==
  IF results = <<>> THEN <<>>
  ELSE (IF Head(results).coord # None THEN << Head(results) >> ELSE <<>>)
       \o words_with_coord(Tail(results))

\* GeotagToponymEvaluator.yield_documents, for the words of one document.
yield_documents(results, nbcl, strat, stops) ==
  IF need_context(strat)
  THEN words_with_coord(add_contexts(mark_stopwords(results, stops), nbcl,
                                     stops))
  ELSE words_with_coord(results)

\* ------------------------------------------------------------------------
\* Geotagging toponyms: disambiguate_toponym
\* ------------------------------------------------------------------------
\* bestscore = -1e308: below every score.
MinScore == -1

\* loc.match of the locations and divisions listed under the toponym.
location_matches(g, lotop) ==
  [k \in 1..Len(ListOf(g.lower_toponym_to_location, lotop)) |->
     g.localities[ListOf(g.lower_toponym_to_location, lotop)[k]].match]
  \o
  [k \in 1..Len(ListOf(g.lower_toponym_to_division, lotop)) |->
     g.divs[DivisionIndex(g.divs,
                          ListOf(g.lower_toponym_to_division, lotop)[k])].match]

\* The loop `for loc in locs': articles += [loc.match]
RECURSIVE add_matches(_, _)
add_matches(articles, matches) ==
  IF matches = <<>> THEN articles
  ELSE add_matches(
         IF Head(matches) # 0 /\ Head(matches) \notin Range(articles)
         THEN Append(articles, Head(matches)) ELSE articles,
         Tail(matches))

\* Mutant: a candidate with the same score replaces the best one.
keep_best_or_equal(best, art, thisscore) ==
  IF thisscore >= best.score THEN [score |-> thisscore, art |-> art] ELSE best

\* if thisscore > bestscore: bestscore = thisscore; bestart = art
keep_best(best, art, thisscore) ==
  IF thisscore > best.score THEN [score |-> thisscore, art |-> art] ELSE best

\* The loop `for art in articles' of disambiguate_toponym.
RECURSIVE best_article(_, _, _, _, _)
best_article(articles, strat, geogword, heap, best) ==
  IF articles = <<>> THEN best
  ELSE best_article(Tail(articles), strat, geogword, heap,
         keep_best(best, Head(articles),
                   compute_score(strat, geogword, heap[Head(articles)])))

\* StatArticle.matches_coord, with Division.matches_coord for an article that
\* was matched with a division; limit is Opts.max_dist_for_close_match.
matches_coord(art, coord, limit, divs) ==
  \/ spheredist(art.coord, coord) <= limit * MilesUnit
  \/ /\ art.location # None
     /\ art.location.kind = "Division"
     /\ Division_contains(divs[DivisionIndex(divs, art.location.path)], coord)

\* good_arts = [art for art in articles if art.matches_coord(coord)]
RECURSIVE good_arts(_, _, _, _, _)
good_arts(articles, coord, limit, divs, heap) ==
  IF articles = <<>> THEN <<>>
  ELSE (IF matches_coord(heap[Head(articles)], coord, limit, divs)
        THEN << Head(articles) >> ELSE <<>>)
       \o good_arts(Tail(articles), coord, limit, divs, heap)

\* The reason given for an incorrect result with candidates.
reason_of_good_arts(good, heap) ==
  IF good = <<>> THEN "incorrect_with_no_correct_candidates"
  ELSE IF Len(good) > 1 THEN "incorrect_with_multiple_correct_candidates"
  ELSE IF heap[good[1]].incoming_links = NoLinks
    THEN "incorrect_one_correct_candidate_missing_link_info"
  ELSE "incorrect_one_correct_candidate"

\* Mutant: no reason is given when there is no candidate.
incorrect_reason_none_without_candidates(correct, articles, coord, limit, divs, heap) ==
  IF correct \/ Len(articles) = 0 THEN NoReason
  ELSE reason_of_good_arts(good_arts(articles, coord, limit, divs, heap), heap)

\* The reason that disambiguate_toponym gives for its result.
incorrect_reason(correct, articles, coord, limit, divs, heap) ==
  IF correct THEN NoReason
  ELSE IF Len(articles) = 0 THEN "incorrect_with_no_candidates"
  ELSE reason_of_good_arts(good_arts(articles, coord, limit, divs, heap), heap)

\* The three accumulators of toponym results as one record.
ToponymResults ==
  [all_toponym |-> all_toponym, diff_surface |-> diff_surface,
   diff_short |-> diff_short]

\* Results.record_geotag_toponym_result
record_geotag_toponym_result(res, correct, toponym, trueloc, reason, num_arts) ==
  [all_toponym |->
     EvalWithCandidateList_record_result(res.all_toponym, correct, reason,
                                         num_arts),
   diff_surface |->
     IF toponym # trueloc
     THEN EvalWithCandidateList_record_result(res.diff_surface, correct,
                                              reason, num_arts)
     ELSE res.diff_surface,
   diff_short |->
     IF toponym # trueloc /\ toponym # compute_short_form(trueloc)[1]
     THEN EvalWithCandidateList_record_result(res.diff_short, correct, reason,
                                              num_arts)
     ELSE res.diff_short]

\* The end of disambiguate_toponym: the result is classified and recorded.
record_disambiguation(t, res, geogword, articles, best, correct, reason) ==
  [table |-> IF articles = ListOf(t.lower_toponym_to_article,
                                  lower(geogword.word))
             THEN t
             ELSE [t EXCEPT !.lower_toponym_to_article =
                     SetKey(@, lower(geogword.word), articles)],
   results |-> record_geotag_toponym_result(res, correct, geogword.word,
                 geogword.location, reason, Len(articles)),
   articles |-> articles, bestart |-> best.art, bestscore |-> best.score,
   correct |-> correct, reason |-> reason]

classify_disambiguation(t, g, res, limit, geogword, articles, best, correct) ==
  record_disambiguation(t, res, geogword, articles, best, correct,
    incorrect_reason(correct, articles, geogword.coord, limit, g.divs, g.heap))

judge_best_article(t, g, res, limit, geogword, articles, best) ==
  classify_disambiguation(t, g, res, limit, geogword, articles, best,
    /\ best.art # 0
    /\ matches_coord(g.heap[best.art], geogword.coord, limit, g.divs))

score_candidates(t, g, res, strat, limit, geogword, articles) ==
  judge_best_article(t, g, res, limit, geogword, articles,
    best_article(articles, strat, geogword, g.heap,
                 [score |-> MinScore, art |-> 0]))

\* GeotagToponymEvaluator.disambiguate_toponym, for a toponym with ground
\* truth.  The list of candidates is the list object of the table, which
\* `articles += [loc.match]' extends in place.
disambiguate_toponym(t, g, res, strat, limit, geogword) ==
  score_candidates(t, g, res, strat, limit, geogword,
    add_matches(ListOf(t.lower_toponym_to_article, lower(geogword.word)),
                location_matches(g, lower(geogword.word))))

\* ------------------------------------------------------------------------
\* Geotagging toponyms: GeotagToponymEvaluator on a loaded corpus
\* ------------------------------------------------------------------------
MaxToponyms == 3

\* The loop over the lines of the gazetteer, when the time of the stage is
\* not used up.
RECURSIVE match_entries(_, _, _, _)
match_entries(st, t, limit, entries) ==
  IF entries = <<>> THEN st
  ELSE match_entries(match_world_gazetteer_entry(st, t, limit, Head(entries)),
                     t, limit, Tail(entries))

match_all_divisions(st, t) ==
  match_divisions(st, t, [k \in 1..Len(st.divs) |-> k])

\* WorldGazetteer.read_world_gazetteer_and_match on a whole file, starting
\* with no location; the divisions are taken in the order they were noted.
read_world_gazetteer_and_match(heap, t, limit, entries) ==
  match_all_divisions(
    match_entries([localities |-> <<>>, divs |-> <<>>,
                   lower_toponym_to_location |-> <<>>,
                   lower_toponym_to_division |-> <<>>, heap |-> heap,
                   loc |-> 0, tried |-> <<>>, skipped |-> FALSE,
                   raised |-> FALSE],
                  t, limit, entries),
    t)

The == Name("lower", "the", "", "")
Wine == Name("lower", "wine", "", "")

\* The article data files that were loaded.
TopoCorpora ==
  { << GazArticle(Paris, ArtCoordClose, 3),
       GazArticle(ParisFrance, ArtCoordNear, 3),
       GazArticle(Lutece, ArtCoordFar, 2) >>,
    << GazArticle(Paris, ArtCoordMid, NoLinks),
       GazArticle(ParisDept, ArtCoordNear, 0),
       GazArticle(ParisCity, ArtCoordFar, 1) >>,
    << GazArticle(ParisFrance, ArtCoordNear, 120),
       GazArticle(ParisCity, ArtCoordFar, 30) >> }

\* The gazetteer files that were read, each as the list of its lines.
TopoGazetteers ==
  { <<>>,
    << GazEntry(Lutece, << Paris >>, 4000, -7400, France, NoName, NoName) >>,
    << GazEntry(Paris, <<>>, 4000, -7400, Paris, NoName, NoName),
       GazEntry(Lutece, <<>>, 4100, -7300, Paris, NoName, NoName) >> }

\* The documents of the evaluation file, each as the words that
\* yield_geogwords yields for it.
TopoDocuments ==
  { << GeogWord(The, FALSE, None, None),
       GeogWord(Paris, TRUE, LocCoord1, ParisFrance),
       GeogWord(Wine, FALSE, None, None) >>,
    << GeogWord(Lutece, TRUE, LocCoord1, Lutece),
       GeogWord(Paris, TRUE, LocCoord2, Paris) >>,
    << GeogWord(Tokyo, TRUE, LocCoord1, Tokyo),
       GeogWord(Wine, FALSE, None, None) >>,
    << GeogWord(Paris, TRUE, None, None),
       GeogWord(The, FALSE, None, None) >> }

TopoStrategies ==
  {LinkBaselineStrategy, NaiveBayesStrategy(FALSE), NaiveBayesStrategy(TRUE)}

\* The state after the article data (st) and the gazetteer (gz) were read;
\* the counts file held no article, or the same counts for every article.
LoadedCorpus(st, gz) ==
  /\ \E d \in {None, DistParis} :
       arts = [k \in 1..Len(gz.heap) |-> [gz.heap[k] EXCEPT !.dist = d]]
  /\ tiling_region_to_articles = st.tiling
  /\ InitTableVars(st.table)
  /\ redirects = st.redirects
  /\ localities = gz.localities
  /\ path_to_division = gz.divs
  /\ lower_toponym_to_location = gz.lower_toponym_to_location
  /\ lower_toponym_to_division = gz.lower_toponym_to_division

LoadedGazetteer(st, limit, entries) ==
  LoadedCorpus(st, read_world_gazetteer_and_match(st.heap, st.table, limit,
                                                  entries))

InitTopo ==
  /\ \E limit \in {10, 25}, nbcl \in 0..1 :
       /\ Opts = [width_of_stat_region |-> 1, max_time_per_stage |-> 0,
                  max_dist_for_close_match |-> limit,
                  naive_bayes_context_len |-> nbcl]
       /\ \E recs \in TopoCorpora, entries \in TopoGazetteers :
            LoadedGazetteer(read_article_data(recs), limit, entries)
  /\ corner_to_stat_region = <<>>
  /\ empty_stat_region = None
  /\ all_regions_computed = FALSE
  /\ num_empty_regions = 0
  /\ num_non_empty_regions = 0
  /\ num_created = 0
  /\ cached_dists = <<>>
  /\ nread = 0
  /\ InitCountsVars
  /\ stopwords \in {{}, {The}}
  /\ strategy \in TopoStrategies
  /\ InitResults
  /\ pc = "yield_documents"
  /\ ret = [op |-> "none"]

\* yield_documents yields the next document of the file, given by its words.
YieldDocuments(words) ==
  /\ pc = "yield_documents"
  /\ all_toponym.total_instances + Len(words_with_coord(words)) <= MaxToponyms
  /\ doc' = yield_documents(words, Opts.naive_bayes_context_len, strategy,
                            stopwords)
  /\ ret' = [op |-> "yield_documents", words |-> words]
  /\ pc' = "evaluate_document"
  /\ UNCHANGED << Opts, arts, gridVars, cacheVars, tableVars, loadVars,
                  gazVars, stopwords, strategy, toponymVars, documentVars,
                  yielded_regions, warnings >>

\* One turn of the loop of evaluate_document: disambiguate_toponym on the
\* next word of the document (all of them have a coordinate).
DisambiguateToponym ==
  LET got == disambiguate_toponym(Table, GazState, ToponymResults, strategy,
               Opts.max_dist_for_close_match, Head(doc))
  IN  /\ pc = "evaluate_document"
      /\ doc # <<>>
      /\ SetTable(got.table)
      /\ all_toponym' = got.results.all_toponym
      /\ diff_surface' = got.results.diff_surface
      /\ diff_short' = got.results.diff_short
      /\ UNCHANGED geogwords_frame
      /\ doc' = Tail(doc)
      /\ ret' = [op |-> "disambiguate_toponym", geogword |-> Head(doc),
                 articles |-> got.articles, bestart |-> got.bestart,
                 bestscore |-> got.bestscore, correct |-> got.correct,
                 reason |-> got.reason]
      /\ UNCHANGED << Opts, arts, gridVars, cacheVars, loadVars, gazVars,
                      stopwords, strategy, documentVars, yielded_regions,
                      warnings, pc >>

\* evaluate_document returns True after the last word of the document.
EndOfDocument ==
  /\ pc = "evaluate_document"
  /\ doc = <<>>
  /\ pc' = "yield_documents"
  /\ ret' = [op |-> "evaluate_document"]
  /\ UNCHANGED << Opts, arts, gridVars, cacheVars, tableVars, loadVars,
                  gazVars, evalVars >>

NextTopo ==
  \/ \E words \in TopoDocuments : YieldDocuments(words)
  \/ DisambiguateToponym
  \/ EndOfDocument

SpecTopo == InitTopo /\ [][NextTopo]_vars

\* ------------------------------------------------------------------------
\* Geotagging documents: evaluate_document and its results
\* ------------------------------------------------------------------------
\* Distances to the centre of a region are whole numbers of 1/RegionUnit of
\* a region: spheredist / Opts.miles_per_region with the default of 100 miles
\* per region, and degree_dist / degrees_per_region.
RegionUnit == 1000

\* stat_region_indices_to_center_coord
stat_region_indices_to_center_coord(latind, longind, width) ==
  LET lat  == ((2 * latind + width) * degrees_per_region) \div 2
      long == ((2 * longind + width) * degrees_per_region) \div 2
  IN  Coord(IF lat > maximum_latitude THEN maximum_latitude ELSE lat,
            IF long > maximum_longitude THEN long - 360000000 ELSE long)

\* spheredist(coord, center) / 100 and
\* sqrt((c1.lat - c2.lat)**2 + (c1.long - c2.long)**2) / 90, rounded down to
\* 1/1000 region, from the coordinates of the documents to the centres of
\* the regions of width 1 to 3.
CenterDistTable ==
  << << CoordA, Coord(-45000000, -135000000), 92609, 1723 >>,
     << CoordA, Coord(-45000000, -45000000), 51145, 864 >>,
     << CoordA, Coord(-45000000, 45000000), 43859, 724 >>,
     << CoordA, Coord(-45000000, 135000000), 84028, 1517 >>,
     << CoordA, Coord(0, -180000000), 114750, 2114 >>,
     << CoordA, Coord(0, -90000000), 69064, 1116 >>,
     << CoordA, Coord(0, 0), 9757, 157 >>,
     << CoordA, Coord(0, 90000000), 55442, 895 >>,
     << CoordA, Coord(45000000, -135000000), 80647, 1657 >>,
     << CoordA, Coord(45000000, -45000000), 40478, 724 >>,
     << CoordA, Coord(45000000, 45000000), 31897, 549 >>,
     << CoordA, Coord(45000000, 135000000), 73361, 1442 >>,
     << CoordA, Coord(89999999, -180000000), 55336, 2290 >>,
     << CoordA, Coord(89999999, -135000000), 55336, 1840 >>,
     << CoordA, Coord(89999999, -90000000), 55336, 1422 >>,
     << CoordA, Coord(89999999, -45000000), 55336, 1078 >>,
     << CoordA, Coord(89999999, 0), 55336, 895 >>,
     << CoordA, Coord(89999999, 45000000), 55336, 970 >>,
     << CoordA, Coord(89999999, 90000000), 55336, 1257 >>,
     << CoordA, Coord(89999999, 135000000), 55336, 1648 >>,
     << CoordC, Coord(-45000000, -135000000), 89057, 3662 >>,
     << CoordC, Coord(-45000000, -45000000), 98803, 2763 >>,
     << CoordC, Coord(-45000000, 45000000), 96885, 1964 >>,
     << CoordC, Coord(-45000000, 135000000), 87548, 1442 >>,
     << CoordC, Coord(0, -180000000), 55442, 3989 >>,
     << CoordC, Coord(0, -90000000), 63448, 3022 >>,
     << CoordC, Coord(0, 0), 69064, 2087 >>,
     << CoordC, Coord(0, 90000000), 61058, 1257 >>,
     << CoordC, Coord(45000000, -135000000), 27622, 3411 >>,
     << CoordC, Coord(45000000, -45000000), 36959, 2420 >>,
     << CoordC, Coord(45000000, 45000000), 35449, 1442 >>,
     << CoordC, Coord(45000000, 135000000), 25704, 549 >>,
     << CoordC, Coord(89999999, -180000000), 6917, 3890 >>,
     << CoordC, Coord(89999999, -135000000), 6917, 3390 >>,
     << CoordC, Coord(89999999, -90000000), 6917, 2891 >>,
     << CoordC, Coord(89999999, -45000000), 6917, 2391 >>,
     << CoordC, Coord(89999999, 0), 6917, 1892 >>,
     << CoordC, Coord(89999999, 45000000), 6917, 1393 >>,
     << CoordC, Coord(89999999, 90000000), 6917, 895 >>,
     << CoordC, Coord(89999999, 135000000), 6917, 404 >> >>

\* The two distances of record_geotag_document_result, in regions.
center_dists(coord, center) ==
  LET k == CHOOSE k \in 1..Len(CenterDistTable) :
             CenterDistTable[k][1] = coord /\ CenterDistTable[k][2] = center
  IN  [truedist |-> CenterDistTable[k][3], degdist |-> CenterDistTable[k][4]]

\* dist // dist_fraction_increment, and a distance as a number of quarters of
\* a region for the tables whose ranges are dist_fractions_for_error_dist.
quarters(dist) == (4 * dist) \div RegionUnit

\* The class attributes of Results that record_geotag_document_result writes.
DocumentResults ==
  [all_document |-> all_document, docs_by_naitr |-> docs_by_naitr,
   docs_by_degree_dist_to_true_center |-> docs_by_degree_dist_to_true_center,
   docs_by_true_dist_to_true_center |-> docs_by_true_dist_to_true_center,
   docs_by_degree_dist_to_pred_center |-> docs_by_degree_dist_to_pred_center,
   docs_by_true_dist_to_pred_center |-> docs_by_true_dist_to_pred_center]

\* record_geotag_document_result, once the distances are computed: pred from
\* the document to the centre of the predicted region, reg to the centre of
\* its true region.  The collector of docs_by_naitr is taken by rank.
record_document_dists(res, rank, pred, reg, num_arts_in_true_region) ==
  [all_document |->
     GeotagDocumentEval_record_result(res.all_document, rank,
                                      pred.truedist, pred.degdist),
   docs_by_naitr |->
     record_in_table(res.docs_by_naitr, rank, rank,
                     pred.truedist, pred.degdist),
   docs_by_true_dist_to_true_center |->
     record_in_defaultdict(res.docs_by_true_dist_to_true_center,
                           quarters(reg.truedist), rank,
                           pred.truedist, pred.degdist),
   docs_by_degree_dist_to_true_center |->
     record_in_defaultdict(res.docs_by_degree_dist_to_true_center,
                           quarters(reg.degdist), rank,
                           pred.truedist, pred.degdist),
   docs_by_true_dist_to_pred_center |->
     record_in_table(res.docs_by_true_dist_to_pred_center,
                     quarters(pred.truedist), rank,
                     pred.truedist, pred.degdist),
   docs_by_degree_dist_to_pred_center |->
     record_in_table(res.docs_by_degree_dist_to_pred_center,
                     quarters(pred.degdist), rank,
                     pred.truedist, pred.degdist)]

\* Results.record_geotag_document_result
record_geotag_document_result(res, rank, coord, pred_latind, pred_longind, num_arts_in_true_region, width) ==
  record_document_dists(res, rank,
    center_dists(coord,
      stat_region_indices_to_center_coord(pred_latind, pred_longind, width)),
    center_dists(coord,
      stat_region_indices_to_center_coord(
        coord_to_stat_region_indices(coord, width)[1],
        coord_to_stat_region_indices(coord, width)[2], width)),
    num_arts_in_true_region)

\* Results.record_geotag_document_other_stat
record_geotag_document_other_stat(res, othertype) ==
  [res EXCEPT !.all_document = record_other_stat(@, othertype)]

PerWordRegionDistributionsStrategy ==
  [class |-> "PerWordRegionDistributionsStrategy"]
KLDivergenceStrategy(partial) ==
  [class |-> "KLDivergenceStrategy", partial |-> partial]

\* The region object with the given identity.
RegionById(map, id) == map[CHOOSE k \in 1..Len(map) : map[k].id = id]

\* The region objects of a ranking of region identities.
regions_by_id(map, got) ==
  [regions |-> [k \in 1..Len(got.regions) |-> RegionById(map, got.regions[k])],
   cache |-> got.cache]

\* strategy.return_ranked_regions(article.dist): the ranked region objects
\* and the cache afterwards.  KLDivergenceStrategy takes every region of
\* yield_all_nonempty_regions out of a priority queue; order stands for the
\* order in which the divergences let them come out.
ranked_regions(strat, cache, worddist, map, heap, order) ==
  IF strat.class = "KLDivergenceStrategy"
  THEN [regions |-> [k \in 1..Len(yield_all_nonempty_regions(map)) |->
                       yield_all_nonempty_regions(map)[order[k]]],
        cache |-> cache]
  ELSE regions_by_id(map, return_ranked_regions(cache, worddist, map, heap))

\* The loop of evaluate_document over regs, from the given rank on.
RECURSIVE rank_of_region(_, _, _, _)
rank_of_region(regs, latind, longind, rank) ==
  IF regs = <<>> THEN rank
  ELSE IF Head(regs).latind = latind /\ Head(regs).longind = longind
    THEN rank
  ELSE rank_of_region(Tail(regs), latind, longind, rank + 1)

\* Mutant: a region that is not ranked gets the rank of the last region.
rank_among_regions_at_most_last(regs, latind, longind) ==
  IF rank_of_region(regs, latind, longind, 1) > Len(regs) THEN Len(regs)
  ELSE rank_of_region(regs, latind, longind, 1)

\* rank = 1; for reg in regs: ...; rank += 1
rank_among_regions(regs, latind, longind) ==
  rank_of_region(regs, latind, longind, 1)

\* What evaluate_document leaves behind: the class state of StatRegion, the
\* cache of region distributions, the results, and what it returned.
DocumentEvaluation(g, cache, res, result, raised, rank, naitr, regs) ==
  [grid |-> g, cache |-> cache, res |-> res, result |-> result,
   raised |-> raised, rank |-> rank, naitr |-> naitr, regs |-> regs]

\* evaluate_document, from the call of record_geotag_document_result on.
record_document(g, cache, res, article, naitr, regs, rank, width) ==
  DocumentEvaluation(g, cache,
    IF naitr = 0
    THEN record_geotag_document_other_stat(
           record_geotag_document_result(res, rank, article.coord,
             regs[1].latind, regs[1].longind, naitr, width),
           "Articles with no training articles in region")
    ELSE record_geotag_document_result(res, rank, article.coord,
           regs[1].latind, regs[1].longind, naitr, width),
    TRUE, FALSE, rank, naitr, regs)

\* evaluate_document, once the regions are ranked; regs[0] raises an
\* IndexError when no region is ranked.
rank_document(g, cache, res, article, naitr, regs, width) ==
  IF regs = <<>>
  THEN DocumentEvaluation(g, cache, res, FALSE, TRUE, 1, naitr, regs)
  ELSE record_document(g, cache, res, article, naitr, regs,
         rank_among_regions(regs,
           coord_to_stat_region_indices(article.coord, width)[1],
           coord_to_stat_region_indices(article.coord, width)[2]),
         width)

\* evaluate_document, once the true region was looked up (g.result).
evaluate_in_region(g, cache, res, strat, article, ranked, width) ==
  rank_document(g, ranked.cache, res, article, g.result.worddist.num_arts,
                ranked.regions, width)

\* WikipediaGeotagDocumentEvaluator.evaluate_document
evaluate_document(g, cache, res, strat, article, order, width, tiling, heap) ==
  IF article.dist = None
  THEN DocumentEvaluation(g, cache,
         record_geotag_document_other_stat(res, "Skipped articles"),
         FALSE, FALSE, 0, 0, <<>>)
  ELSE IF ~article.dist.finished
    THEN DocumentEvaluation(g, cache, res, FALSE, TRUE, 0, 0, <<>>)
  ELSE evaluate_in_region(
         find_region_for_coord(g, article.coord, width, tiling, heap),
         cache, res, strat, article,
         ranked_regions(strat, cache, article.dist, g.map, heap, order),
         width)

\* ------------------------------------------------------------------------
\* Geotagging documents: the dev articles are evaluated one after the other
\* ------------------------------------------------------------------------
Repeat(x, n) == [k \in 1..n |-> x]

EvalArticle(coord, dist, split) ==
  [coord |-> coord, dist |-> dist, split |-> split, incoming_links |-> 3]

\* The corpora that are evaluated: training and dev articles with their
\* distributions (None: the counts of the article were not read).
EvalCorpora ==
  { Repeat(EvalArticle(CoordA, DistParis, "training"), 10)
      \o << EvalArticle(CoordA, DistParis, "dev"),
            EvalArticle(CoordC, DistTokyo, "dev") >>,
    << EvalArticle(CoordA, DistParis, "training"),
       EvalArticle(CoordB, DistTokyo, "training"),
       EvalArticle(CoordC, DistTokyo, "dev"),
       EvalArticle(CoordA, None, "dev"),
       EvalArticle(CoordA, DistTokyo, "dev") >>,
    << EvalArticle(CoordA, DistTokyo, "training"),
       EvalArticle(CoordB, DistParis, "training"),
       EvalArticle(CoordC, DistParis, "training"),
       EvalArticle(CoordA, DistParis, "dev"),
       EvalArticle(CoordC, DistTokyo, "dev"),
       EvalArticle(CoordA, DistTokyo, "dev") >>,
    << EvalArticle(CoordA, None, "training"),
       EvalArticle(CoordA, DistParis, "dev") >> }

EvalStrategies ==
  {PerWordRegionDistributionsStrategy, KLDivergenceStrategy(TRUE)}

\* ArticleTable.articles_by_split['dev'], in the order of the article file.
RECURSIVE dev_articles(_, _)
dev_articles(heap, k) ==
  IF k > Len(heap) THEN <<>>
  ELSE IF heap[k].split = "dev" THEN << k >> \o dev_articles(heap, k + 1)
  ELSE dev_articles(heap, k + 1)

\* The number of documents that evaluate_document was called with.
StatOf(e, key) == IF key \in DOMAIN e.other_stats THEN e.other_stats[key] ELSE 0
documents_processed ==
  all_document.total_instances + StatOf(all_document, "Skipped articles")

\* GeotagDocumentEvaluator.__init__ has run generate_all_nonempty_regions on
\* the loaded corpus, with the strategy chosen by implement_main.
InitEval ==
  /\ \E width \in 1..MaxWidth : Opts = [width_of_stat_region |-> width]
  /\ \E as \in EvalCorpora : arts = MakeHeap(as)
  /\ tiling_region_to_articles =
       add_articles_to_regions([t \in AllTiles |-> <<>>], arts, 1)
  /\ LET g == generate_all_nonempty_regions(EmptyGridState,
                Opts.width_of_stat_region, tiling_region_to_articles, arts)
     IN  /\ corner_to_stat_region = g.map
         /\ empty_stat_region = g.empty
         /\ all_regions_computed = g.computed
         /\ num_empty_regions = g.nempty
         /\ num_non_empty_regions = g.nnonempty
         /\ num_created = g.created
  /\ cached_dists = <<>>
  /\ InitTableVars(EmptyTable)
  /\ redirects = <<>>
  /\ nread = 0
  /\ InitCountsVars
  /\ InitGazVars
  /\ stopwords = {}
  /\ \E strat \in EvalStrategies : strategy = strat
  /\ InitResults
  /\ pc = "evaluate_document"
  /\ ret = [op |-> "none"]

\* Store the results of a document into the class attributes of Results.
SetDocumentResults(res) ==
  /\ all_document' = res.all_document
  /\ docs_by_naitr' = res.docs_by_naitr
  /\ docs_by_degree_dist_to_true_center' =
       res.docs_by_degree_dist_to_true_center
  /\ docs_by_true_dist_to_true_center' = res.docs_by_true_dist_to_true_center
  /\ docs_by_degree_dist_to_pred_center' =
       res.docs_by_degree_dist_to_pred_center
  /\ docs_by_true_dist_to_pred_center' = res.docs_by_true_dist_to_pred_center

\* The orders in which the regions leave the priority queue of
\* KLDivergenceStrategy: the rotations of the dict order and its reverse.
RankOrders(n) ==
  {[k \in 1..n |-> ((k + s - 2) % n) + 1] : s \in 1..n}
    \cup {[k \in 1..n |-> n + 1 - k]}

\* The state that a call of evaluate_document leaves behind.
StoreDocumentEvaluation(a, got) ==
  /\ SetGrid(got.grid)
  /\ cached_dists' = got.cache
  /\ SetDocumentResults(got.res)
  /\ pc' = IF got.raised THEN "raised" ELSE pc
  /\ ret' = [op |-> "evaluate_document", article |-> a,
             result |-> got.result, raised |-> got.raised,
             rank |-> got.rank, naitr |-> got.naitr,
             regs |-> [k \in 1..Len(got.regs) |-> got.regs[k].id]]

\* evaluate_document is called with the next article of the dev split.
EvaluateDocument(order) ==
  /\ pc = "evaluate_document"
  /\ documents_processed < Len(dev_articles(arts, 1))
  /\ strategy.class = "KLDivergenceStrategy"
       \/ order = [k \in 1..Len(corner_to_stat_region) |-> k]
  /\ StoreDocumentEvaluation(
       dev_articles(arts, 1)[documents_processed + 1],
       evaluate_document(GridState, cached_dists, DocumentResults, strategy,
         arts[dev_articles(arts, 1)[documents_processed + 1]], order,
         Opts.width_of_stat_region, tiling_region_to_articles, arts))
  /\ UNCHANGED << Opts, arts, tableVars, loadVars, gazVars, stopwords,
                  strategy, doc, toponymVars, yielded_regions, warnings >>

NextEval ==
  \E order \in RankOrders(Len(corner_to_stat_region)) : EvaluateDocument(order)

SpecEval == InitEval /\ [][NextEval]_vars

\* ------------------------------------------------------------------------
\* Claims about the regional grid
\* ------------------------------------------------------------------------
FindOps == {"find_region_for_coord", "find_region_for_region_indices"}

\* C1: once generate_all_nonempty_regions has run, no call changes
\* corner_to_stat_region, num_empty_regions or num_non_empty_regions, the
\* shared empty region stays the same object once constructed, and every
\* find_region_for_* call for indices that are not in the map returns it.
C1_NoRegionConstructedAfterGenerateAll ==
  /\ [][all_regions_computed =>
          /\ all_regions_computed'
          /\ corner_to_stat_region' = corner_to_stat_region
          /\ num_empty_regions' = num_empty_regions
          /\ num_non_empty_regions' = num_non_empty_regions
          /\ (empty_stat_region # None =>
                empty_stat_region' = empty_stat_region)]_vars
  /\ []((/\ all_regions_computed
         /\ ret.op \in FindOps
         /\ LookupRegion(corner_to_stat_region, ret.inds[1], ret.inds[2]) = None)
        => (empty_stat_region # None /\ ret.region = empty_stat_region))

\* C1 witness: after generate_all built a region, a lookup in an empty area
\* returned the shared empty region.
C1_Witness ==
  /\ all_regions_computed
  /\ Len(corner_to_stat_region) > 0
  /\ ret.op \in FindOps
  /\ LookupRegion(corner_to_stat_region, ret.inds[1], ret.inds[2]) = None
  /\ ret.region = empty_stat_region

\* C2 as stated: the region returned by find_region_for_coord(c) always has
\* the indices coord_to_stat_region_indices(c).
C2_Original ==
  ret.op = "find_region_for_coord" =>
    << ret.region.latind, ret.region.longind >> =
       coord_to_stat_region_indices(ret.coord, Opts.width_of_stat_region)

\* C2 amended: the region returned by find_region_for_coord(c) has the indices
\* coord_to_stat_region_indices(c), except when all regions are computed and
\* no region is stored at these indices: then the shared empty region is
\* returned, whose indices are (None, None).
C2_IndicesOfReturnedRegion ==
  ret.op = "find_region_for_coord" =>
    LET inds == coord_to_stat_region_indices(ret.coord,
                                             Opts.width_of_stat_region)
    IN  IF all_regions_computed
           /\ LookupRegion(corner_to_stat_region, inds[1], inds[2]) = None
        THEN /\ ret.region = empty_stat_region
             /\ ret.region.latind = NoneInd
             /\ ret.region.longind = NoneInd
        ELSE << ret.region.latind, ret.region.longind >> = inds

\* C2 witness: a lookup by coordinate returned a stored, nonempty region
\* whose indices had to be clamped or wrapped.
C2_Witness ==
  /\ ret.op = "find_region_for_coord"
  /\ ret.coord = CoordB
  /\ Opts.width_of_stat_region = 2
  /\ ret.region.worddist.num_arts > 0
  /\ << ret.region.latind, ret.region.longind >> = << -1, 1 >>


CorpusRegions ==
  generate_all_nonempty_regions(EmptyGridState, Opts.width_of_stat_region,
                                tiling_region_to_articles, arts).map

\* C5: whatever queries were made before, get_region_dist(w) returns the
\* distribution computed from the regions of the corpus, and
\* return_ranked_regions(q) the ranking computed with an empty cache.
C5_ResultsIndependentOfCache ==
  /\ ret.op = "get_region_dist" =>
       ret.dist = RegionDistForWord(ret.word, CorpusRegions, arts)
  /\ ret.op = "return_ranked_regions" =>
       ret.regions =
         return_ranked_regions(<<>>, ret.query, CorpusRegions, arts).regions

\* C5 witness: a ranking of two regions was computed for a query of which
\* one word was cached and another was not, on a full cache.
C5_Witness ==
  /\ ret.op = "return_ranked_regions"
  /\ Len(ret.regions) >= 2
  /\ Cardinality(ret.cached_before) = cached_dists_maxsize
  /\ \E w \in ret.cached_before : ret.query.counts[w] > 0
  /\ \E w \in Words \ ret.cached_before : ret.query.counts[w] > 0


\* ------------------------------------------------------------------------
\* Claims about the article table
\* ------------------------------------------------------------------------
IsRedirect(art) == arts[art].redir # NoName

\* All article ids held in the lists of a listdict.
ListedIn(d) == UNION {Range(d[k]) : k \in DOMAIN d}

Occurrences(list, x) == Cardinality({k \in 1..Len(list) : list[k] = x})

\* C3: after read_article_data, no article of a split list and no value of
\* name_to_article or of the lowercase, name-and-division, short-form and
\* toponym indexes is a redirect record; recording the redirect names adds
\* nothing to a split list, and every article of the table is in the list
\* of its split exactly once.
C3_NoRedirectInTable ==
  /\ [](pc = "loaded" =>
        /\ \A a \in ListedIn(articles_by_split) : ~IsRedirect(a)
        /\ \A n \in DOMAIN name_to_article : ~IsRedirect(name_to_article[n])
        /\ \A a \in ListedIn(lower_name_to_articles)
                    \cup ListedIn(lower_name_div_to_articles)
                    \cup ListedIn(short_lower_name_to_articles)
                    \cup ListedIn(lower_toponym_to_article) : ~IsRedirect(a)
        /\ \A n \in DOMAIN name_to_article :
             LET a == name_to_article[n]
             IN  /\ arts[a].split \in DOMAIN articles_by_split
                 /\ Occurrences(articles_by_split[arts[a].split], a) = 1
                 /\ \A sp \in DOMAIN articles_by_split \ {arts[a].split} :
                      Occurrences(articles_by_split[sp], a) = 0)
  /\ [][pc = "read_article_data" /\ pc' = "loaded" =>
          articles_by_split' = articles_by_split]_vars

\* C3 witness: read_article_data has returned and two redirect names and
\* its own title map to the same article.
C3_Witness ==
  /\ pc = "loaded"
  /\ \E a \in 1..Len(arts) :
       Cardinality({n \in DOMAIN name_to_article : name_to_article[n] = a}) = 3


\* C6: when read_word_counts has returned, at the end of the file or because
\* the time for the stage was over, every article of the table has no dist or
\* a finished one, and no region generated afterwards fails the assertion
\* art.dist.finished of add_articles.
C6_DistsFinishedAfterLoad ==
  pc = "eval" =>
    /\ \A n \in DOMAIN name_to_article :
         LET dist == arts[name_to_article[n]].dist
         IN  dist = None \/ dist.finished
    /\ ret.op \in FindOps \cup {"generate_all_nonempty_regions"} => ~ret.raised

\* C6 witness: read_word_counts stopped early, one article has a finished
\* dist and another has none.
C6_Witness ==
  /\ pc = "eval"
  /\ ret.op = "read_word_counts"
  /\ ret.stopped_early
  /\ \E n \in DOMAIN name_to_article : arts[name_to_article[n]].dist = None
  /\ \E n \in DOMAIN name_to_article :
       /\ arts[name_to_article[n]].dist # None
       /\ arts[name_to_article[n]].split = "dev"

\* ------------------------------------------------------------------------
\* Claims about the gazetteer
\* ------------------------------------------------------------------------
\* The k-th radius of the ring, in miles.
Radius(k) == 5 * 2^(k - 1)

MatchedEntry ==
  ret.op = "match_world_gazetteer_entry" /\ ~ret.skipped /\ ~ret.raised

\* C7: match_world_gazetteer_entry tries the radii 5, 10, 20, ... in this
\* order, none above max_dist_for_close_match, and stops at the first radius
\* at which find_match_for_locality returns an article, which becomes the
\* match and is within this radius; without a hit every radius up to the
\* limit was tried and the locality has no match; no locality is matched
\* with an article farther than max_dist_for_close_match.
C7_RingStopsAtFirstHit ==
  /\ MatchedEntry =>
       LET tried == ret.tried
           loc   == localities[ret.loc]
           n     == Len(tried)
       IN  /\ n >= 1
           /\ \A k \in 1..n :
                /\ tried[k].maxdist = Radius(k)
                /\ tried[k].maxdist <= Opts.max_dist_for_close_match
                /\ k < n => tried[k].match = 0
                /\ tried[k].match =
                     find_match_for_locality(Table, loc, Radius(k), arts)
           /\ IF tried[n].match # 0
              THEN /\ loc.match = tried[n].match
                   /\ spheredist(loc.coord, arts[loc.match].coord)
                        <= tried[n].maxdist * MilesUnit
                   /\ arts[loc.match].location =
                        [kind |-> "Locality", loc |-> ret.loc]
              ELSE /\ loc.match = 0
                   /\ Radius(n + 1) > Opts.max_dist_for_close_match
  /\ \A i \in DOMAIN localities :
       localities[i].match # 0 =>
         spheredist(localities[i].coord, arts[localities[i].match].coord)
           <= Opts.max_dist_for_close_match * MilesUnit

\* C7 witness: nothing was found within 5 miles, the article within 10 miles
\* became the match, and another article of the table is farther than the
\* limit.
C7_Witness ==
  /\ MatchedEntry
  /\ Len(ret.tried) = 2
  /\ ret.tried[2].match # 0
  /\ localities[ret.loc].match = ret.tried[2].match
  /\ \E a \in DOMAIN arts :
       spheredist(localities[ret.loc].coord, arts[a].coord)
         > Opts.max_dist_for_close_match * MilesUnit

\* The three lists of candidates of find_one_wikipedia_match for a name.
Tier1(name) == ListOf(lower_name_to_articles, lower(name))

RECURSIVE Tier2Of(_, _)
Tier2Of(path, name) ==
  IF path = <<>> THEN <<>>
  ELSE ListOf(lower_name_div_to_articles,
              << lower(name), div_lower(Head(path)) >>)
         \o Tier2Of(Tail(path), name)

Tier2(loc, name) ==
  IF loc.div = NoDivision THEN <<>> ELSE Tier2Of(loc.div, name)

Tier3(name) == ListOf(short_lower_name_to_articles, lower(name))

AnyIn(list, passes) == \E k \in 1..Len(list) : list[k] \in passes

FirstIn(list, passes) ==
  list[CHOOSE k \in 1..Len(list) :
         list[k] \in passes /\ \A j \in 1..(k - 1) : list[j] \notin passes]

\* The articles within maxdist miles of a locality.
LocalityPasses(loc, maxdist) ==
  {a \in DOMAIN arts : locality_check_match(loc, arts[a], maxdist)}

\* What find_match_for_locality finds for one name of the locality.
LocalityMatchForName(loc, name, maxdist) ==
  find_one_wikipedia_match(Table, loc, name, LocalityPasses(loc, maxdist),
    [p \in (DOMAIN arts) \X (DOMAIN arts) |->
       locality_prefer_match(loc, arts[p[1]], arts[p[2]])])

LocalityDist(loc, a) == spheredist(loc.coord, arts[a].coord)

DivisionPasses(d) ==
  {a \in DOMAIN arts : division_check_match(d, arts[a])}

KnownLinks(a) == arts[a].incoming_links # NoLinks

Disambiguated == ret.op = "disambiguate_toponym"

\* The score that the strategy gives to a candidate of the last call.
ScoreOf(a) == compute_score(strategy, ret.geogword, arts[a])

\* C11: disambiguate_toponym selects a candidate whose score is maximal, and
\* among the candidates with the maximal score the first one of the list.
C11_MaximalScoreFirstWins ==
  (Disambiguated /\ ret.articles # <<>>) =>
    \E j \in 1..Len(ret.articles) :
      /\ ret.bestart = ret.articles[j]
      /\ \A k \in 1..Len(ret.articles) :
           /\ ScoreOf(ret.articles[k]) <= ScoreOf(ret.articles[j])
           /\ ScoreOf(ret.articles[k]) = ScoreOf(ret.articles[j]) => j <= k

\* Two candidates share the maximal score, and the first was selected.
C11_Witness ==
  /\ Disambiguated
  /\ Len(ret.articles) >= 2
  /\ ret.bestart = ret.articles[1]
  /\ ScoreOf(ret.articles[1]) = ScoreOf(ret.articles[2])
  /\ \A k \in 1..Len(ret.articles) :
       ScoreOf(ret.articles[k]) <= ScoreOf(ret.articles[1])

\* C12: with NaiveBayes and use_baseline = false, two candidates with the
\* same word distribution get the same score, whatever their link counts.
C12_Original ==
  (Disambiguated /\ strategy = NaiveBayesStrategy(FALSE)) =>
    \A a, b \in Range(ret.articles) :
      (arts[a].dist # None /\ arts[a].dist = arts[b].dist) =>
        ScoreOf(a) = ScoreOf(b)

\* The positions in words of the words that have a coordinate.
CoordPositions(words) == {k \in 1..Len(words) : words[k].coord # None}

\* The position in words of the j-th word that has a coordinate.
PositionOf(words, j) ==
  CHOOSE k \in CoordPositions(words) :
    Cardinality({m \in CoordPositions(words) : m <= k}) = j

\* The positions around position i whose word is no stopword.
Neighbours(words, i, nbcl) ==
  {k \in 1..Len(words) :
     /\ k - i <= nbcl
     /\ i - k <= nbcl
     /\ words[k].word \notin stopwords}

\* C13: when the strategy needs context, the context of a toponym holds one
\* pair for every non-stopword word within naive_bayes_context_len positions,
\* so it is not empty when there is such a word.
C13_Original ==
  (ret.op = "yield_documents" /\ need_context(strategy)) =>
    \A j \in 1..Len(doc) :
      Len(doc[j].context) =
        Cardinality(Neighbours(ret.words, PositionOf(ret.words, j),
                               Opts.naive_bayes_context_len))

\* C16: no call of disambiguate_toponym changes the list that
\* lower_toponym_to_article holds for a toponym.
C16_Original ==
  [][Disambiguated' =>
       \A key \in DOMAIN lower_toponym_to_article :
         ListOf(lower_toponym_to_article', key) = lower_toponym_to_article[key]
    ]_vars

ReasonCount(e, k) == e[incorrect_geotag_toponym_reasons[k]]

SumOfReasons(e) == SumSeq([k \in 1..5 |-> ReasonCount(e, k)])

\* C17: every call counts one instance, correct or incorrect; a correct one
\* changes no reason counter, an incorrect one adds 1 to exactly one of
\* them; so total = correct + incorrect and the reasons sum to incorrect.
C17_OneReasonForEachIncorrect ==
  [][Disambiguated' =>
       /\ all_toponym'.total_instances = all_toponym.total_instances + 1
       /\ all_toponym'.total_instances =
            all_toponym'.correct_instances + all_toponym'.incorrect_instances
       /\ SumOfReasons(all_toponym') = all_toponym'.incorrect_instances
       /\ IF ret'.correct
          THEN /\ all_toponym'.correct_instances =
                    all_toponym.correct_instances + 1
               /\ \A k \in 1..5 :
                    ReasonCount(all_toponym', k) = ReasonCount(all_toponym, k)
          ELSE /\ all_toponym'.incorrect_instances =
                    all_toponym.incorrect_instances + 1
               /\ \E k \in 1..5 :
                    /\ ReasonCount(all_toponym', k) =
                         ReasonCount(all_toponym, k) + 1
                    /\ \A m \in (1..5) \ {k} :
                         ReasonCount(all_toponym', m) =
                           ReasonCount(all_toponym, m)
    ]_vars

\* Correct and incorrect results were recorded, one without candidates.
C17_Witness ==
  /\ Disambiguated
  /\ all_toponym.correct_instances >= 1
  /\ all_toponym.incorrect_instances >= 2
  /\ all_toponym.incorrect_with_no_candidates >= 1
  /\ SumOfReasons(all_toponym) = all_toponym.incorrect_instances

\* The link count of a candidate, 0 when it is missing.
LinksOrZero(a) ==
  IF arts[a].incoming_links = NoLinks THEN 0 ELSE arts[a].incoming_links

\* C20: under LinkBaseline a candidate is selected whose link count is the
\* greatest, a missing count being as good as zero: a candidate without links
\* is selected only when no candidate has a link.
C20_LinkBaselineSelectsMostLinks ==
  (Disambiguated /\ strategy = LinkBaselineStrategy /\ ret.articles # <<>>) =>
    /\ ret.bestart \in Range(ret.articles)
    /\ \A a \in Range(ret.articles) : LinksOrZero(a) <= LinksOrZero(ret.bestart)

\* A candidate with a link was selected, after candidates with a missing and
\* with a zero count.
C20_Witness ==
  /\ Disambiguated
  /\ strategy = LinkBaselineStrategy
  /\ Len(ret.articles) >= 3
  /\ arts[ret.articles[1]].incoming_links = NoLinks
  /\ arts[ret.articles[2]].incoming_links = 0
  /\ LinksOrZero(ret.bestart) >= 1

\* ------------------------------------------------------------------------
\* Claims about geotagging documents
\* ------------------------------------------------------------------------
\* The indices of the true statistical region of an article, and whether a
\* region with training articles is stored at them.
TrueIndices(a) ==
  coord_to_stat_region_indices(arts[a].coord, Opts.width_of_stat_region)

TrueRegionIsEmpty(a) ==
  LookupRegion(corner_to_stat_region, TrueIndices(a)[1], TrueIndices(a)[2])
    = None

DocumentsIn(table, value) ==
  table.items_by_range[get_collector(table, value)].total_instances

\* C14: every evaluated document is recorded in the collector of
\* docs_by_naitr that is selected by the number of training articles in its
\* true statistical region, whatever its rank is.
C14_Original ==
  [][(ret'.op = "evaluate_document" /\ ret'.result)
       => DocumentsIn(docs_by_naitr', ret'.naitr)
            = DocumentsIn(docs_by_naitr, ret'.naitr) + 1]_vars

\* C15: when the true region of an evaluated document holds no training
\* article and some nonempty region exists, evaluate_document completes and
\* records exactly one result, with the rank number of ranked regions + 1.
C15_WorstRankWithoutTrainingArticles ==
  [][(/\ ret'.op = "evaluate_document"
      /\ arts[ret'.article].dist # None
      /\ TrueRegionIsEmpty(ret'.article)
      /\ Len(corner_to_stat_region) >= 1)
       => /\ ~ret'.raised
          /\ ret'.result
          /\ pc' = "evaluate_document"
          /\ ret'.naitr = 0
          /\ Len(ret'.regs) >= 1
          /\ ret'.rank = Len(ret'.regs) + 1
          /\ all_document'.total_instances = all_document.total_instances + 1
          /\ all_document'.incorrect_instances
               = all_document.incorrect_instances + 1
          /\ Len(all_document'.true_dists) = Len(all_document.true_dists) + 1
          /\ all_document'.incorrect_by_exact_rank
               = Incr(all_document.incorrect_by_exact_rank, Len(ret'.regs) + 1)
          /\ StatOf(all_document',
                    "Articles with no training articles in region")
               = StatOf(all_document,
                        "Articles with no training articles in region") + 1]_vars

\* A document in a region without training articles was ranked behind two
\* nonempty regions.
C15_Witness ==
  /\ ret.op = "evaluate_document"
  /\ ret.result
  /\ TrueRegionIsEmpty(ret.article)
  /\ ret.naitr = 0
  /\ Len(ret.regs) >= 2
  /\ ret.rank = Len(ret.regs) + 1
  /\ all_document.total_instances >= 1

\* ------------------------------------------------------------------------
\* Claims about the enumeration of the regions
\* ------------------------------------------------------------------------
\* C18: after generate_all_nonempty_regions, a call of
\* yield_all_nonempty_regions yields the regions that the call before it
\* yielded, in the same order, whatever lookups (find_region_for_coord,
\* find_region_for_region_indices) and scoring queries ran between them.
C18_EnumerationIsStable ==
  [][(/\ ret'.op = "yield_all_nonempty_regions"
      /\ all_regions_computed
      /\ ret'.before # None)
       => /\ ~ret'.raised
          /\ yielded_regions' = ret'.before]_vars

\* The regions were yielded, a lookup in an area without articles or a
\* scoring query ran, and the regions (two or more) were yielded again.
C18_Witness ==
  /\ ret.op = "yield_all_nonempty_regions"
  /\ ret.before # None
  /\ ret.after \in {"find_region_for_coord", "find_region_for_region_indices",
                    "return_ranked_regions"}
  /\ empty_stat_region # None
  /\ cached_dists # <<>>
  /\ Len(yielded_regions.regions) >= 2

\* ------------------------------------------------------------------------
\* Claims about counts of unknown articles
\* ------------------------------------------------------------------------
\* The distribution of an article holds the same counts before and after a
\* step (finish_article_distributions may have frozen it).
SameCounts(before, after) ==
  IF before = None THEN after = None
  ELSE /\ after # None
       /\ after.counts = before.counts
       /\ after.total_tokens = before.total_tokens

\* C19: when read_word_counts closes a block (at the next title line or at
\* the end of the file) whose title is not in the article table, the block
\* is discarded with a warning: no article gets a distribution and none is
\* changed, and at a title line the loop goes on with the next block; a block
\* of a known title is stored in its article, also after discarded blocks.
C19_UnknownTitleDiscarded ==
  [][(/\ pc = "read_word_counts"
      /\ ret'.op \in {"title_line", "read_word_counts"}
      /\ title # NoName
      /\ total_tokens > 0)
       => IF lookup_article(Table, title) = 0
          THEN /\ warnings' = Append(warnings, title)
               /\ Len(arts') = Len(arts)
               /\ \A a \in 1..Len(arts) : SameCounts(arts[a].dist, arts'[a].dist)
               /\ ret'.op = "title_line"
                    => /\ pc' = "read_word_counts"
                       /\ total_tokens' = 0
                       /\ wordhash' = NoCounts
          ELSE /\ warnings' = warnings
               /\ arts'[lookup_article(Table, title)].dist # None
               /\ arts'[lookup_article(Table, title)].dist.counts = wordhash
               /\ arts'[lookup_article(Table, title)].dist.total_tokens
                    = total_tokens]_vars

\* The block of Tokyo, which is in no corpus, was discarded, and the block
\* that ends the file was stored in its article, which has no other counts.
C19_Witness ==
  /\ ret.op = "read_word_counts"
  /\ ~ret.stopped_early
  /\ warnings = << Tokyo >>
  /\ title # NoName
  /\ total_tokens > 0
  /\ lookup_article(Table, title) # 0
  /\ arts[lookup_article(Table, title)].dist # None
  /\ arts[lookup_article(Table, title)].dist.counts = wordhash
  /\ \E a \in 1..Len(arts) : arts[a].dist = None

\* ------------------------------------------------------------------------
\* Statistical regions wider than two tiling regions
\* ------------------------------------------------------------------------
\* Greatest --width-of-stat-region of the lookups below.
MaxWideWidth == 4

CoordD == Coord(10000000, -60000000)

WideArtChoices ==
  [coord : {CoordB, CoordD}, dist : {None, DistParis}, split : {"training"},
   incoming_links : {3}]

WideCoords == {CoordB, CoordD}

\* The program has read the articles; no region was constructed yet.
InitWide ==
  /\ \E width \in 1..MaxWideWidth : Opts = [width_of_stat_region |-> width]
  /\ \E as \in SeqsUpTo(WideArtChoices, MaxArts) : arts = MakeHeap(as)
  /\ InitGridVars(arts)
  /\ cached_dists = <<>>
  /\ InitTableVars(EmptyTable)
  /\ redirects = <<>>
  /\ nread = 0
  /\ InitCountsVars
  /\ InitGazVars
  /\ InitEvalVars
  /\ pc = "eval"
  /\ ret = [op |-> "none"]

NextWide ==
  \/ \E coord \in WideCoords : FindRegionForCoord(coord)
  \/ GenerateAllNonemptyRegions
  \/ YieldAllNonemptyRegions

SpecWide == InitWide /\ [][NextWide]_vars

\* ------------------------------------------------------------------------
\* C21
\* ------------------------------------------------------------------------
\* The column that continues from minimum_longind after maximum_longind.
WrapLongind(j) ==
  minimum_longind + ((j - minimum_longind)
                       % (maximum_longind - minimum_longind + 1))

\* The distinct tiles of the block of width W whose south-west tile is (i, j).
BlockTiles(i, j, W) ==
  {<< i + a, WrapLongind(j + b) >> : a \in 0..(W - 1), b \in 0..(W - 1)}

\* The training articles that have a dist and lie in the block.
BlockArticles(i, j, W) ==
  {a \in 1..Len(arts) :
     /\ arts[a].dist # None
     /\ arts[a].split = "training"
     /\ coord_to_tiling_region_indices(arts[a].coord) \in BlockTiles(i, j, W)}

\* C21: a region constructed for the south-west tile (i, j) with width W
\* holds exactly the training articles with a dist of the W x W block of
\* tiles, with the longitude wrapping around, each of them once, and
\* num_arts is their number.
C21_Original ==
  \A k \in 1..Len(corner_to_stat_region) :
    LET statreg == corner_to_stat_region[k]
        block   == BlockArticles(statreg.latind, statreg.longind,
                                 Opts.width_of_stat_region)
    IN  /\ Range(statreg.worddist.articles) = block
        /\ Len(statreg.worddist.articles) = Cardinality(block)
        /\ statreg.worddist.num_arts = Cardinality(block)

\* ------------------------------------------------------------------------
\* C30
\* ------------------------------------------------------------------------
\* C30: the tiling region of a coordinate c is one of the tiles that
\* generate_dist scans for the region with the indices
\* coord_to_stat_region_indices(c), so that every training article with a
\* dist located at c is counted in the region that find_region_for_coord(c)
\* returns.
C30_Original ==
  (ret.op = "find_region_for_coord" /\ ~ret.raised)
    => /\ coord_to_tiling_region_indices(ret.coord)
            \in Range(TilesOfRegion(ret.inds[1], ret.inds[2],
                                    Opts.width_of_stat_region))
       /\ \A a \in 1..Len(arts) :
            (/\ arts[a].coord = ret.coord
             /\ arts[a].dist # None
             /\ arts[a].split = "training")
              => a \in Range(ret.region.worddist.articles)

\* ------------------------------------------------------------------------
\* C24
\* ------------------------------------------------------------------------
\* C24: every region that yield_all_nonempty_regions returns has at least
\* one article, whatever calls were made before it, lookups of coordinates
\* in empty areas before generate_all_nonempty_regions included.
C24_Original ==
  (ret.op = "yield_all_nonempty_regions" /\ ~ret.raised)
    => \A k \in 1..Len(yielded_regions.regions) :
         yielded_regions.regions[k].worddist.num_arts > 0

\* ------------------------------------------------------------------------
\* Gazetteer entries in nested divisions
\* ------------------------------------------------------------------------
\* Lines of a gazetteer with one, two and three levels of divisions, with a
\* level left empty, and with names that differ only in case.
DivEntries ==
  { GazEntry(Paris, <<>>, 4000, -7400, France, Paris, NoName),
    GazEntry(Lutece, <<>>, 4100, -7300, France, NoName, Paris),
    GazEntry(Lutece, <<>>, 4100, -7300, France, Paris, Lutece),
    GazEntry(Paris, <<>>, 4000, -7400, NoName, NoName, NoName),
    GazEntry(Paris, <<>>, 4000, -7400, lower(France), NoName, NoName),
    GazEntry(Lutece, <<>>, NoneInd, NoneInd, France, Paris, NoName) }

\* The loop over the lines of the gazetteer, within the time of the stage.
NextDiv ==
  \E entry \in DivEntries : MatchWorldGazetteerEntry(entry, 0)

SpecDiv == InitGaz /\ [][NextDiv]_vars

\* ------------------------------------------------------------------------
\* C22
\* ------------------------------------------------------------------------
\* The Division objects of a path.
DivisionsOfPath(divs, path) == {k \in 1..Len(divs) : divs[k].path = path}

\* How often a division is registered in lower_toponym_to_division, under a
\* name or under all names.
TimesRegistered(topdiv, key, path) ==
  Cardinality({i \in 1..Len(ListOf(topdiv, key)) :
                 ListOf(topdiv, key)[i] = path})

RECURSIVE TimesRegisteredAnywhere(_, _, _)
TimesRegisteredAnywhere(topdiv, keys, path) ==
  IF keys = {} THEN 0
  ELSE LET key == CHOOSE k \in keys : TRUE
       IN  TimesRegistered(topdiv, key, path)
             + TimesRegisteredAnywhere(topdiv, keys \ {key}, path)

\* The levels of a path that name a division.
NamedLevels(path) == {n \in 1..Len(path) : path[n] # NoName}

\* The path of the finest division of a path, NoDivision if all are empty.
FinestDivision(path) ==
  IF NamedLevels(path) = {} THEN NoDivision
  ELSE SubSeq(path, 1, CHOOSE n \in NamedLevels(path) :
                          \A m \in NamedLevels(path) : m <= n)

\* What C22 says of the division at level n of the path, for locality id.
DivisionNoted(path, n, id, divs, divsAfter, topdivAfter) ==
  LET p == SubSeq(path, 1, n)
  IN  /\ Cardinality(DivisionsOfPath(divsAfter, p)) = 1
      /\ DivisionsOfPath(divs, p) \subseteq DivisionsOfPath(divsAfter, p)
      /\ \A k \in DivisionsOfPath(divsAfter, p) :
           /\ divsAfter[k].name = path[n]
           /\ divsAfter[k].locs =
                IF k \in DivisionsOfPath(divs, p)
                THEN Append(divs[k].locs, id) ELSE << id >>
      /\ TimesRegistered(topdivAfter, lower(path[n]), p) = 1
      /\ TimesRegisteredAnywhere(topdivAfter, DOMAIN topdivAfter, p) = 1

\* C22: when an entry with coordinates and the divisions (div1, div2, div3)
\* is processed, then for every prefix of the path whose last component is
\* not empty there is one Division, the one that was there before if there
\* was one, it is registered once, under its name in lower case, and the
\* locality is appended to its locs; no other Division is created, and
\* loc.div is the finest of these divisions, or None.
C22_DivisionsNotedOnce ==
  [][(ret'.op = "match_world_gazetteer_entry" /\ ~ret'.skipped)
       => /\ \A n \in NamedLevels(<< ret'.entry.div1, ret'.entry.div2,
                                     ret'.entry.div3 >>) :
               DivisionNoted(<< ret'.entry.div1, ret'.entry.div2,
                                ret'.entry.div3 >>, n, ret'.loc,
                             path_to_division, path_to_division',
                             lower_toponym_to_division')
          /\ \A k \in 1..Len(path_to_division') :
               \/ k <= Len(path_to_division)
               \/ \E n \in NamedLevels(<< ret'.entry.div1, ret'.entry.div2,
                                          ret'.entry.div3 >>) :
                    path_to_division'[k].path =
                      SubSeq(<< ret'.entry.div1, ret'.entry.div2,
                                ret'.entry.div3 >>, 1, n)
          /\ localities'[ret'.loc].div =
               FinestDivision(<< ret'.entry.div1, ret'.entry.div2,
                                 ret'.entry.div3 >>)]_vars

\* Two localities were seen in France, the second one in a division of
\* the third level whose second level is empty: France holds both.
C22_Witness ==
  /\ ret.op = "match_world_gazetteer_entry"
  /\ ~ret.skipped
  /\ ret.entry.div2 = NoName
  /\ ret.entry.div3 = Paris
  /\ \E k \in 1..Len(path_to_division) :
       /\ path_to_division[k].path = << France >>
       /\ path_to_division[k].locs = << 1, 2 >>
  /\ \E k \in 1..Len(path_to_division) :
       /\ path_to_division[k].path = << France, NoName, Paris >>
       /\ path_to_division[k].div = << France >>
  /\ Len(ListOf(lower_toponym_to_division, lower(Paris))) = 2

\* ------------------------------------------------------------------------
\* Results by rank: EvalWithRank.record_result
\* ------------------------------------------------------------------------
\* Number of results recorded in one run.
MaxResults == 3

\* The ranks that are recorded: the first, some up to max_rank_for_credit,
\* and some past it.
RankChoices ==
  {1, 2, 5, max_rank_for_credit, max_rank_for_credit + 1,
   max_rank_for_credit + 2}

\* An EvalWithRank object was constructed; ret.ranks holds the ranks
\* recorded so far.
InitRank ==
  /\ Opts = [width_of_stat_region |-> 1]
  /\ arts = <<>>
  /\ InitGridVars(arts)
  /\ cached_dists = <<>>
  /\ InitTableVars(EmptyTable)
  /\ redirects = <<>>
  /\ nread = 0
  /\ InitCountsVars
  /\ InitGazVars
  /\ InitEvalVars
  /\ pc = "eval"
  /\ ret = [op |-> "none", ranks |-> <<>>]

RecordResult(rank) ==
  /\ Len(ret.ranks) < MaxResults
  /\ all_document' = EvalWithRank_record_result(all_document, rank)
  /\ ret' = [op |-> "record_result", ranks |-> Append(ret.ranks, rank)]
  /\ UNCHANGED << Opts, arts, gridVars, cacheVars, tableVars, loadVars,
                  gazVars, stopwords, strategy, doc, toponymVars,
                  docs_by_naitr, docs_by_degree_dist_to_true_center,
                  docs_by_true_dist_to_true_center,
                  docs_by_degree_dist_to_pred_center,
                  docs_by_true_dist_to_pred_center, yielded_regions,
                  warnings, pc >>

NextRank == \E rank \in RankChoices : RecordResult(rank)

SpecRank == InitRank /\ [][NextRank]_vars

\* ------------------------------------------------------------------------
\* C23
\* ------------------------------------------------------------------------
\* d[i] of an intdict: 0 for a key never set.
IntOf(d, i) == IF i \in DOMAIN d THEN d[i] ELSE 0

\* The number of results recorded with a rank of at most i.
ResultsUpToRank(ranks, i) ==
  Cardinality({k \in 1..Len(ranks) : ranks[k] <= i})

\* C23: after any sequence of record_result(rank) calls with rank >= 1,
\* correct_instances is the number of results of rank 1,
\* correct_by_up_to_rank[i] is the number of results of rank <= i for every
\* i in 1..max_rank_for_credit (and so does not decrease with i),
\* correct_by_up_to_rank[max_rank_for_credit] + incorrect_past_max_rank is
\* total_instances, and total_credit is at most
\* max_rank_for_credit * total_instances.
C23_RankCounters ==
  ret.op \in {"none", "record_result"} =>
    /\ all_document.total_instances = Len(ret.ranks)
    /\ all_document.correct_instances = ResultsUpToRank(ret.ranks, 1)
    /\ \A i \in 1..max_rank_for_credit :
         IntOf(all_document.correct_by_up_to_rank, i)
           = ResultsUpToRank(ret.ranks, i)
    /\ \A i \in 1..(max_rank_for_credit - 1) :
         IntOf(all_document.correct_by_up_to_rank, i)
           <= IntOf(all_document.correct_by_up_to_rank, i + 1)
    /\ IntOf(all_document.correct_by_up_to_rank, max_rank_for_credit)
         + all_document.incorrect_past_max_rank
         = all_document.total_instances
    /\ all_document.total_credit
         <= max_rank_for_credit * all_document.total_instances

\* A result of rank 1, one of rank 5 and one past max_rank_for_credit were
\* recorded.
C23_Witness ==
  /\ ret.op = "record_result"
  /\ ret.ranks = << 1, 5, max_rank_for_credit + 1 >>
  /\ all_document.total_instances = 3
  /\ all_document.correct_instances = 1
  /\ all_document.incorrect_past_max_rank = 1
  /\ IntOf(all_document.correct_by_up_to_rank, 5) = 2
  /\ IntOf(all_document.correct_by_up_to_rank, 4) = 1

\* ------------------------------------------------------------------------
\* C25
\* ------------------------------------------------------------------------
\* C25: without a budget for the load (max_time_per_stage is 0),
\* read_word_counts is never cut short: it ends at the end of the counts
\* file, after every block was processed.
C25_Original ==
  (Opts.max_time_per_stage = 0 /\ ret.op = "read_word_counts")
    => ~ret.stopped_early

\* ------------------------------------------------------------------------
\* C26
\* ------------------------------------------------------------------------
\* C26: for every max_dist_for_close_match, those below the first radius 5
\* included, match_world_gazetteer_entry on an entry with coordinates ends
\* without an error, and the locality is matched or has no match.
C26_Original ==
  (ret.op = "match_world_gazetteer_entry" /\ ~ret.skipped)
    => /\ ~ret.raised
       /\ pc # "raised"
       /\ localities[ret.loc].match \in 0..Len(arts)

\* ------------------------------------------------------------------------
\* C27
\* ------------------------------------------------------------------------
\* C27: after the gazetteer was loaded, x.match = a exactly if
\* a.location = x, for every Locality or Division x and every article a.
C27_Original ==
  pc = "matched" =>
    /\ \A l \in 1..Len(localities), a \in 1..Len(arts) :
         (localities[l].match = a)
           <=> (arts[a].location = [kind |-> "Locality", loc |-> l])
    /\ \A k \in 1..Len(path_to_division), a \in 1..Len(arts) :
         (path_to_division[k].match = a)
           <=> (arts[a].location =
                  [kind |-> "Division", path |-> path_to_division[k].path])

\* ------------------------------------------------------------------------
\* Reading a TR-CoNLL file: TRCoNLLGeotagToponymEvaluator.yield_geogwords
\* ------------------------------------------------------------------------
\* A line is known by what re.split('\t', line, 1) makes of it: no tab at
\* all, or a word (the empty string on a candidate line) and the rest, ty.
\* Of ty the reader looks at: whether it starts with LOC, whether it is
\* empty, whether its first character is '>', the number of its fields, and
\* the fields lat, long and fulltop (a number that float() rejects is
\* NoneInd).
TRType(loc, empty, marked, fields, lat, long, fulltop) ==
  [loc |-> loc, empty |-> empty, marked |-> marked, fields |-> fields,
   lat |-> lat, long |-> long, fulltop |-> fulltop]

TRLine(word, ty) == [tab |-> TRUE, word |-> word, ty |-> ty]

LineWithoutTab == [tab |-> FALSE]

OtherType == TRType(FALSE, FALSE, FALSE, 3, 0, 0, "")
LocType == TRType(TRUE, FALSE, FALSE, 1, 0, 0, "")

\* The lines of the files that are read: words, toponyms, candidates with
\* and without the mark, and lines that raise an exception.
TRLines ==
  { TRLine("week", OtherType),
    TRLine("Khartoum", LocType),
    TRLine("", TRType(FALSE, FALSE, TRUE, 5, 15580000, 32530000,
                      "Khartoum > Sudan")),
    TRLine("", TRType(FALSE, FALSE, FALSE, 5, -17880000, 30110000,
                      "Khartoum > Zimbabwe")),
    TRLine("", TRType(FALSE, FALSE, TRUE, 5, 15580000, NoneInd,
                      "Khartoum > Sudan")),
    TRLine("", TRType(FALSE, FALSE, TRUE, 3, 15580000, 0, "")),
    TRLine("", TRType(FALSE, TRUE, FALSE, 1, 0, 0, "")),
    LineWithoutTab }

\* The locals of the generator when it is called, the lines read and the
\* words yielded so far; wordstruct is not bound yet.
NewGeogwordsFrame ==
  [in_loc |-> FALSE, wordstruct |-> None, lines |-> <<>>, yielded |-> <<>>]

\* The branch of a line with a word: the toponym that waits is yielded, a
\* new GeogWord is made, and yielded unless it is a toponym.
geogword_line(f, line, waiting) ==
  [f EXCEPT
     !.in_loc = line.ty.loc,
     !.wordstruct = GeogWord(line.word, line.ty.loc, None, None),
     !.yielded = IF line.ty.loc THEN waiting
                 ELSE Append(waiting,
                             GeogWord(line.word, FALSE, None, None))]

\* The branch of a candidate line with the mark, inside a toponym: every
\* exception (too few fields, a number that float() rejects) is raised
\* before wordstruct is changed.
candidate_line(f, ty) ==
  IF ty.fields < 5 \/ ty.lat = NoneInd \/ ty.long = NoneInd THEN f
  ELSE [f EXCEPT !.wordstruct.coord = Coord(ty.lat, ty.long),
                 !.wordstruct.location = ty.fulltop]

\* Mutant: a toponym is yielded when its line is read, like any word.
yield_geogwords_line_at_once(f, line) ==
  IF ~line.tab THEN f
  ELSE IF line.word # ""
    THEN [f EXCEPT
            !.in_loc = line.ty.loc,
            !.wordstruct = GeogWord(line.word, line.ty.loc, None, None),
            !.yielded = Append(@, GeogWord(line.word, line.ty.loc, None,
                                           None))]
  ELSE IF f.in_loc /\ ~line.ty.empty /\ line.ty.marked
    THEN candidate_line(f, line.ty)
  ELSE f

\* One turn of the loop of yield_geogwords.  A line without a tab raises
\* ValueError in the assignment to (word, ty); an empty ty inside a toponym
\* raises IndexError in ty[0]; every exception is caught and the loop goes on.
yield_geogwords_line(f, line) ==
  IF ~line.tab THEN f
  ELSE IF line.word # ""
    THEN geogword_line(f, line,
                       IF f.in_loc THEN Append(f.yielded, f.wordstruct)
                       ELSE f.yielded)
  ELSE IF f.in_loc /\ ~line.ty.empty /\ line.ty.marked
    THEN candidate_line(f, line.ty)
  ELSE f

\* The end of yield_geogwords, after the loop.
yield_geogwords_end(f) ==
  IF f.in_loc THEN [f EXCEPT !.yielded = Append(@, f.wordstruct)] ELSE f

\* A TRCoNLLGeotagToponymEvaluator was constructed.
InitTR ==
  /\ Opts = [width_of_stat_region |-> 1]
  /\ arts = <<>>
  /\ InitGridVars(arts)
  /\ cached_dists = <<>>
  /\ InitTableVars(EmptyTable)
  /\ redirects = <<>>
  /\ nread = 0
  /\ InitCountsVars
  /\ InitGazVars
  /\ InitEvalVars
  /\ pc = "eval"
  /\ ret = [op |-> "none"]

\* yield_geogwords is called and the file is opened.
YieldGeogwords ==
  /\ pc = "eval"
  /\ geogwords_frame' = NewGeogwordsFrame
  /\ pc' = "yield_geogwords"
  /\ ret' = [op |-> "yield_geogwords"]
  /\ UNCHANGED << Opts, arts, gridVars, cacheVars, tableVars, loadVars,
                  gazVars, stopwords, strategy, doc, all_toponym,
                  diff_surface, diff_short, documentVars, yielded_regions,
                  warnings >>

\* The next line of the file is read.
ReadTRLine(line) ==
  /\ pc = "yield_geogwords"
  /\ nread < MaxLines
  /\ nread' = nread + 1
  /\ geogwords_frame' =
       [yield_geogwords_line(geogwords_frame, line) EXCEPT
          !.lines = Append(@, line)]
  /\ ret' = [op |-> "yield_geogwords_line", line |-> line]
  /\ UNCHANGED << Opts, arts, gridVars, cacheVars, tableVars, redirects,
                  title, total_tokens, wordhash, gazVars, stopwords,
                  strategy, doc, all_toponym, diff_surface, diff_short,
                  documentVars, yielded_regions, warnings, pc >>

\* The end of the file is reached and the generator returns.
EndOfTRFile ==
  /\ pc = "yield_geogwords"
  /\ geogwords_frame' = yield_geogwords_end(geogwords_frame)
  /\ pc' = "yielded"
  /\ ret' = [op |-> "end_of_file"]
  /\ UNCHANGED << Opts, arts, gridVars, cacheVars, tableVars, loadVars,
                  gazVars, stopwords, strategy, doc, all_toponym,
                  diff_surface, diff_short, documentVars, yielded_regions,
                  warnings >>

NextTR ==
  \/ YieldGeogwords
  \/ \E line \in TRLines : ReadTRLine(line)
  \/ EndOfTRFile

SpecTR == InitTR /\ [][NextTR]_vars

\* ------------------------------------------------------------------------
\* C28
\* ------------------------------------------------------------------------
\* The word lines among the lines read: a word, a tab and a type.
WordLines(lines) ==
  {i \in 1..Len(lines) : lines[i].tab /\ lines[i].word # ""}

\* The k-th word line.
NthWordLine(lines, k) ==
  CHOOSE i \in WordLines(lines) :
    Cardinality({j \in WordLines(lines) : j <= i}) = k

\* The well-formed candidate lines with the mark '>' that follow the word
\* line i, up to the next word line.
MarkedCandidates(lines, i) ==
  {j \in (i + 1)..Len(lines) :
     /\ \A m \in (i + 1)..j : m \notin WordLines(lines)
     /\ lines[j].tab
     /\ ~lines[j].ty.empty
     /\ lines[j].ty.marked
     /\ lines[j].ty.fields >= 5
     /\ lines[j].ty.lat # NoneInd
     /\ lines[j].ty.long # NoneInd}

\* The line that the coordinate of a toponym is taken from.
TruthLine(lines, i) ==
  lines[CHOOSE j \in MarkedCandidates(lines, i) :
          \A m \in MarkedCandidates(lines, i) : m <= j]

\* The GeogWord of the word line i.
GeogWordOfLine(lines, i) ==
  IF lines[i].ty.loc /\ MarkedCandidates(lines, i) # {}
  THEN GeogWord(lines[i].word, TRUE,
                Coord(TruthLine(lines, i).ty.lat, TruthLine(lines, i).ty.long),
                TruthLine(lines, i).ty.fulltop)
  ELSE GeogWord(lines[i].word, lines[i].ty.loc, None, None)

\* The generator holds back a toponym: the last word line read is one, and
\* the end of the file was not reached.
ToponymWaits(lines) ==
  /\ pc = "yield_geogwords"
  /\ WordLines(lines) # {}
  /\ lines[NthWordLine(lines, Cardinality(WordLines(lines)))].ty.loc

\* C28: yield_geogwords yields one GeogWord for every word line, in the
\* order of the lines: a word that is no toponym as soon as its line is
\* read, a toponym after its candidate lines (at the next word line or at
\* the end of the file), with coord and location of its candidate line with
\* the mark '>'; lines that raise an exception change nothing.
C28_OneGeogWordPerWordLine ==
  pc \in {"yield_geogwords", "yielded"} =>
    /\ Len(geogwords_frame.yielded)
         = Cardinality(WordLines(geogwords_frame.lines))
             - (IF ToponymWaits(geogwords_frame.lines) THEN 1 ELSE 0)
    /\ \A k \in 1..Len(geogwords_frame.yielded) :
         geogwords_frame.yielded[k]
           = GeogWordOfLine(geogwords_frame.lines,
                            NthWordLine(geogwords_frame.lines, k))

\* The file ends with a toponym, its candidate line and a line without a
\* tab: the toponym is yielded at the end, with its coordinate.
C28_Witness ==
  /\ pc = "yielded"
  /\ geogwords_frame.lines =
       << TRLine("week", OtherType), TRLine("Khartoum", LocType),
          TRLine("", TRType(FALSE, FALSE, TRUE, 5, 15580000, 32530000,
                            "Khartoum > Sudan")),
          LineWithoutTab >>
  /\ geogwords_frame.yielded =
       << GeogWord("week", FALSE, None, None),
          GeogWord("Khartoum", TRUE, Coord(15580000, 32530000),
                   "Khartoum > Sudan") >>

\* ------------------------------------------------------------------------
\* C29
\* ------------------------------------------------------------------------
\* C29: the map from names to articles that read_article_data produces is
\* the same in whatever order the redirect records of the file are
\* resolved, also when the target of a redirect is the name of a redirect.
C29_Original ==
  [][ret'.op = "read_article_data"
       => \A order \in Orders(Len(redirects)) :
            record_redirects(Table,
                             [k \in 1..Len(redirects) |-> redirects[order[k]]],
                             arts).name_to_article
              = name_to_article']_vars

====
